---- MODULE Spec2Model ----
(***************************************************************************)
(* A model of the CDCL solver of src/abgabe5/cdcl.py together with its     *)
(* data structures in src/abgabe5/assignments.py.                          *)
(*                                                                         *)
(* Conventions.                                                            *)
(*  - A literal is a nonzero integer, a clause a sequence of literals, a   *)
(*    CNF a sequence of clauses.  Python indices are 0-based; the model    *)
(*    keeps the 0-based clause indices of the watch lists and the 0-based  *)
(*    positions inside a clause, and adds 1 when it indexes a sequence.    *)
(*  - Python lists are modelled by value.  proof_cnf shares its clause     *)
(*    objects with cnf (cnf.copy() is shallow and learn_new_clause appends *)
(*    the same list to both), so a watch swap inside a clause of cnf shows *)
(*    in proof_cnf: proof_ref records which clause of cnf each entry of    *)
(*    proof_cnf is.                                                        *)
(*  - Floating point: vsids scores and the bump b are kept in fixed point  *)
(*    (units of 1/ScoreScale); lbdLimit is kept as an exact fraction.      *)
(*  - An optional value (None or a clause) is <<>> or <<clause>>.          *)
(***************************************************************************)
EXTENDS Integers, Sequences, FiniteSets, TLC

VARIABLES
    options,          \* self.options: the set of enabled SolverOptions
    input,            \* the CNF handed to CDCL (never changes)
    cnf,              \* the clause store: originals, then learned clauses
    proof_cnf,        \* the proof log: shallow copy of the store, appended to
    proof_ref,        \* per entry of proof_cnf: its place in cnf, 0 once deleted
    assignments,      \* the Assignments object
    lbd,              \* one LBD value per clause of cnf
    decision_level,   \* local decision_level of CDCL
    conflict_clause,  \* local conflict_clause of CDCL (None or a clause)
    learned_clause,   \* local learned_clause of CDCL, as last assigned or learned
    solver,           \* the counters and parameters of the CDCLSolver object
    heuristic_b,      \* decision_heuristic.b (VSIDS bump), fixed point
    pc,               \* position of CDCL in its loop
    result,           \* what CDCL returned
    dpll,             \* the run of the DPLL program: its CNF, flag and result
    dp,               \* the run of the Davis-Putnam program abgabe3/dp.py
    sat2,             \* the run of the 2-SAT program abgabe2/sat_2.py
    luby_call         \* a call of CDCLSolver.luby: its argument and result

vars == <<options, input, cnf, proof_cnf, proof_ref, assignments, lbd, decision_level,
          conflict_clause, learned_clause, solver, heuristic_b, pc, result, dpll,
          dp, sat2, luby_call>>

(***************************************************************************)
(* Bounds of the model.                                                    *)
(***************************************************************************)
NumVars == 2
MaxLen == 2
MaxClauses == 2

(***************************************************************************)
(* Program constants.                                                      *)
(***************************************************************************)
VSIDS == "VSIDS"
RESTARTS == "RESTARTS"
CLAUSE_LEARNING == "CLAUSE_LEARNING"
CLAUSE_DELETION == "CLAUSE_DELETION"
CLAUSE_MINIMIZATION == "CLAUSE_MINIMIZATION"

SolverOptions ==
    {VSIDS, RESTARTS, CLAUSE_LEARNING, CLAUSE_DELETION, CLAUSE_MINIMIZATION}

luby_num == 100
ScoreScale == 10000

None == <<>>
Some(x) == <<x>>

(***************************************************************************)
(* Generic helpers.                                                        *)
(***************************************************************************)
Abs(x) == IF x < 0 THEN -x ELSE x

SetMin(S) == CHOOSE x \in S : \A y \in S : x <= y

SetMax(S) == CHOOSE x \in S : \A y \in S : x >= y

Range(s) == {s[i] : i \in 1..Len(s)}

\* A faulty variant of Swap: position j keeps its value.
Swap_Overwriting(s, i, j) == [s EXCEPT ![i] = s[j]]

Swap(s, i, j) == [s EXCEPT ![i] = s[j], ![j] = s[i]]

RemoveAt(s, i) == SubSeq(s, 1, i - 1) \o SubSeq(s, i + 1, Len(s))

Negate(s) == [i \in 1..Len(s) |-> -s[i]]

(***************************************************************************)
(* assignments.py: Assignment and Assignments.                             *)
(***************************************************************************)
\* Assignment(literal): the record of one variable after __post_init__.
Assignment(literal) ==
    [literal |-> literal,
     is_assigned |-> FALSE,
     polarity |-> -literal,
     decision_level |-> 0,
     parents |-> <<>>,
     vsids_score |-> 0,
     watched_literals |-> <<>>,
     watched_neg_literals |-> <<>>]

\* Assignments.get_assignment
get_assignment(asg, literal) == asg.assignments[Abs(literal)]

\* Assignment.retrieve_watched_clauses
retrieve_watched_clauses(a, polarity) ==
    IF polarity > 0 THEN a.watched_literals ELSE a.watched_neg_literals

\* Assignment.append_watched_clause, applied to the variable of the polarity
append_watched_clause(asg, clause_index, polarity) ==
    IF polarity > 0
    THEN [asg EXCEPT !.assignments[Abs(polarity)].watched_literals =
                         Append(@, clause_index)]
    ELSE [asg EXCEPT !.assignments[Abs(polarity)].watched_neg_literals =
                         Append(@, clause_index)]

\* the 'discard' operation of Assignment.modify_watched_clauses
DiscardIndex(current_list, clause_index) ==
    SelectSeq(current_list, LAMBDA c : c # clause_index)

\* the 'replace' operation of Assignment.modify_watched_clauses
ReplaceIndex(current_list, old_index, new_index) ==
    [k \in 1..Len(current_list) |->
        IF current_list[k] = old_index THEN new_index ELSE current_list[k]]

\* Assignment.discard_watched_clause
discard_watched_clause(asg, clause_index, polarity) ==
    IF polarity > 0
    THEN [asg EXCEPT !.assignments[Abs(polarity)].watched_literals =
                         DiscardIndex(@, clause_index)]
    ELSE [asg EXCEPT !.assignments[Abs(polarity)].watched_neg_literals =
                         DiscardIndex(@, clause_index)]

\* Assignment.replace_watched_clause
replace_watched_clause(asg, old_index, new_index, polarity) ==
    IF polarity > 0
    THEN [asg EXCEPT !.assignments[Abs(polarity)].watched_literals =
                         ReplaceIndex(@, old_index, new_index)]
    ELSE [asg EXCEPT !.assignments[Abs(polarity)].watched_neg_literals =
                         ReplaceIndex(@, old_index, new_index)]

\* Assignments.__contains__: literal is assigned with this polarity
Contains(asg, literal) ==
    /\ get_assignment(asg, literal).is_assigned
    /\ get_assignment(asg, literal).polarity = literal

\* A faulty variant of set_literal: the literal itself is kept among the
\* literals of the implying clause that become parents.
set_literal_KeepingLiteral(asg, literal, level, implying_clause) ==
    [asg EXCEPT
        !.assignments[Abs(literal)].is_assigned = TRUE,
        !.assignments[Abs(literal)].polarity = literal,
        !.assignments[Abs(literal)].decision_level = level,
        !.assignments[Abs(literal)].parents = Negate(implying_clause),
        !.assignment_history = Append(@, literal)]

\* Assignments.set_literal
set_literal(asg, literal, level, implying_clause) ==
    [asg EXCEPT
        !.assignments[Abs(literal)].is_assigned = TRUE,
        !.assignments[Abs(literal)].polarity = literal,
        !.assignments[Abs(literal)].decision_level = level,
        !.assignments[Abs(literal)].parents =
            Negate(SelectSeq(implying_clause, LAMBDA lit : lit # literal)),
        !.assignment_history = Append(@, literal)]

\* the watch set-up loop of Assignments.__post_init__ (for i, clause; for j
\* in range(min(2, len(clause)))): the indices i appended to the watch list
\* of literal l, in the order of the loop
InitialWatchList(clauses, l) ==
    LET steps == [k \in 1..(2 * Len(clauses)) |->
                     <<(k - 1) \div 2, (k - 1) % 2>>]
        hits == SelectSeq(steps,
                    LAMBDA ij : /\ ij[2] < Len(clauses[ij[1] + 1])
                                /\ clauses[ij[1] + 1][ij[2] + 1] = l)
    IN [k \in 1..Len(hits) |-> hits[k][1]]

\* Assignments(num_literals, cnf)
NewAssignments(num_literals, clauses) ==
    [num_literals |-> num_literals,
     assignment_history |-> <<>>,
     assignments |->
         [v \in 1..num_literals |->
             [Assignment(v) EXCEPT
                 !.watched_literals = InitialWatchList(clauses, v),
                 !.watched_neg_literals = InitialWatchList(clauses, -v)]]]

\* CDCLSolver.get_count
get_count(clauses) ==
    Cardinality(UNION {{Abs(clauses[i][j]) : j \in 1..Len(clauses[i])} :
                          i \in 1..Len(clauses)})

(***************************************************************************)
(* cdcl.py: unit propagation with two watched literals.                    *)
(***************************************************************************)
\* CDCLSolver.find_new_watch: first position j >= 2 whose literal is not
\* false under assignments_history, or -1
find_new_watch(clause, assignments_history) ==
    LET free == {j \in 2..(Len(clause) - 1) :
                     -clause[j + 1] \notin assignments_history}
    IN IF free = {} THEN -1 ELSE SetMin(free)

\* The inner loop of propagate (while i < len(watched_clause_indices)) over
\* the local state of the call (p0 at the head of an iteration).  watched_clause_indices is the list object
\* fetched before the loop; discard_watched_clause replaces the attribute by a
\* new list, so the local list is kept apart from the attribute.
RECURSIVE WatchLoop(_)
WatchLoop(p0) ==
    IF p0.i >= Len(p0.watched_clause_indices) THEN p0
    ELSE
      LET clause_index == p0.watched_clause_indices[p0.i + 1]
          p == [p0 EXCEPT !.processed[Len(p0.processed)].visited =
                              Append(@, clause_index)]
          clause == p.cnf[clause_index + 1]
      IN
      IF Len(clause) < 2
      THEN [p EXCEPT !.conflicts = @ + 1, !.ret = Some(clause)]
      ELSE
        LET own_index == IF clause[1] = p.literal THEN 0 ELSE 1
            other_index == 1 - own_index
            other_literal == clause[other_index + 1]
        IN
        IF Contains(p.assignments, other_literal)
        THEN WatchLoop([p EXCEPT !.i = @ + 1])
        ELSE
          LET j == find_new_watch(clause, p.assignments_history) IN
          IF j # -1
          THEN
            LET new_literal == clause[j + 1] IN
            WatchLoop([p EXCEPT
                !.cnf[clause_index + 1] = Swap(clause, own_index + 1, j + 1),
                !.assignments =
                    append_watched_clause(
                        discard_watched_clause(@, clause_index, p.literal),
                        clause_index, new_literal),
                !.watched_clause_indices = RemoveAt(@, p.i + 1)])
          ELSE
            IF Contains(p.assignments, -other_literal)
            THEN [p EXCEPT !.conflicts = @ + 1, !.ret = Some(clause)]
            ELSE WatchLoop([p EXCEPT
                     !.unit_propagations = @ + 1,
                     !.assignments =
                         set_literal(@, other_literal, p.decision_level, clause),
                     !.literals_propagate = Append(@, other_literal),
                     !.assignments_history = @ \cup {other_literal},
                     !.i = @ + 1])

\* The outer loop of propagate (while literals_propagate): pop() takes the
\* literal appended last.
RECURSIVE PropagateLoop(_)
PropagateLoop(p) ==
    IF p.ret # None \/ p.literals_propagate = <<>> THEN p
    ELSE
      LET literal == -p.literals_propagate[Len(p.literals_propagate)]
          assignment == get_assignment(p.assignments, literal)
      IN PropagateLoop(WatchLoop([p EXCEPT
             !.literals_propagate = SubSeq(@, 1, Len(@) - 1),
             !.literal = literal,
             !.processed =
                 Append(@, [literal |-> literal,
                            list |-> retrieve_watched_clauses(
                                         assignment, literal),
                            visited |-> <<>>]),
             !.watched_clause_indices =
                 retrieve_watched_clauses(assignment, literal),
             !.i = 0]))

\* CDCLSolver.propagate: the final local state; ret is the returned conflict
\* clause or None, cnf/assignments/counters are the mutated arguments.
\* processed is the record of the run of the two loops: per iteration of the
\* outer loop the literal whose watch list was fetched, the list as fetched
\* and the clause indices the inner loop visited, in the order of the visits.
propagate(clauses, asg, level, slv) ==
    PropagateLoop(
        [cnf |-> clauses,
         assignments |-> asg,
         decision_level |-> level,
         literals_propagate |->
             <<asg.assignment_history[Len(asg.assignment_history)]>>,
         assignments_history |-> Range(asg.assignment_history),
         literal |-> 0,
         watched_clause_indices |-> <<>>,
         i |-> 0,
         processed |-> <<>>,
         unit_propagations |-> slv.unit_propagations,
         conflicts |-> slv.conflicts,
         ret |-> None])

(***************************************************************************)
(* cdcl.py: conflict analysis.                                             *)
(***************************************************************************)
\* The body shared by both analysis loops: replace literal by its parents in
\* the three sets a = [current_level_literals, previous_level_literals,
\* all_literals].
ResolveLiteral(asg, a, literal, level) ==
    LET parents == Range(get_assignment(asg, literal).parents)
        lvl(parent) == get_assignment(asg, parent).decision_level
    IN [current_level_literals |->
            (a.current_level_literals \cup
                {parent \in parents : lvl(parent) = level}) \ {literal},
        previous_level_literals |->
            a.previous_level_literals \cup
                {<<parent, lvl(parent)>> : parent \in
                    {q \in parents : lvl(q) # level}},
        all_literals |-> a.all_literals \cup parents]

\* CDCLSolver._analyze_current_level: k is the (1-based) position of the
\* history the reversed iteration is at.
RECURSIVE analyze_current_level(_, _, _, _)
analyze_current_level(asg, a, level, k) ==
    IF k = 0 \/ Cardinality(a.current_level_literals) = 1 THEN a
    ELSE LET literal == asg.assignment_history[k] IN
         IF literal \notin a.current_level_literals
         THEN analyze_current_level(asg, a, level, k - 1)
         ELSE analyze_current_level(
                  asg, ResolveLiteral(asg, a, literal, level), level, k - 1)

\* The loop of CDCLSolver._analyze_decision_literal; previous is None or the
\* literal resolved last.
RECURSIVE DecisionLiteralLoop(_, _, _, _, _)
DecisionLiteralLoop(asg, a, level, k, previous) ==
    IF k = 0 THEN [a |-> a, previous |-> previous]
    ELSE LET literal == asg.assignment_history[k] IN
         IF get_assignment(asg, literal).decision_level # level
         THEN [a |-> a, previous |-> previous]
         ELSE IF literal \notin a.current_level_literals
              THEN DecisionLiteralLoop(asg, a, level, k - 1, previous)
              ELSE DecisionLiteralLoop(
                       asg, ResolveLiteral(asg, a, literal, level), level,
                       k - 1, Some(literal))

\* A faulty variant of _analyze_decision_literal: the literal resolved last
\* is not put back (lines 207-208 left out).
analyze_decision_literal_WithoutPrevious(asg, a, level) ==
    DecisionLiteralLoop(asg, a, level, Len(asg.assignment_history), None).a

\* CDCLSolver._analyze_decision_literal
analyze_decision_literal(asg, a, level) ==
    LET r == DecisionLiteralLoop(
                 asg, a, level, Len(asg.assignment_history), None)
    IN IF r.previous # None
       THEN [r.a EXCEPT !.current_level_literals = @ \cup {r.previous[1]}]
       ELSE r.a

\* VSIDSHeuristic.update_scores, the scores: every literal of
\* conflict_literals adds b to the score of its variable.  (The rescaling
\* branch needs b > 10**30, that is more than 1400 conflicts; it is out of
\* the reach of the fixed-point representation and of every run explored.)
update_scores(asg, conflict_literals, b) ==
    [asg EXCEPT !.assignments =
        [v \in DOMAIN @ |->
            [@[v] EXCEPT !.vsids_score =
                @ + b * Cardinality({l \in conflict_literals : Abs(l) = v})]]]

\* VSIDSHeuristic.update_scores, the bump: b *= c with c = 1.05
DecayBump(b) == (b * 105) \div 100

\* A faulty variant of AnalysisSets: the analysis goes back to the decision
\* literal also when CLAUSE_LEARNING is on.
AnalysisSets_ToDecision(asg, conflict, level, opts) ==
    LET lvl(literal) == get_assignment(asg, literal).decision_level
        a0 == [current_level_literals |->
                   {-conflict[i] : i \in
                       {k \in 1..Len(conflict) : lvl(conflict[k]) = level}},
               previous_level_literals |->
                   {<<-conflict[i], lvl(conflict[i])>> : i \in
                       {k \in 1..Len(conflict) : lvl(conflict[k]) # level}},
               all_literals |-> {-conflict[i] : i \in 1..Len(conflict)}]
    IN analyze_decision_literal(asg, a0, level)

\* CDCLSolver.analyzeConflict up to line 157: the three sets after the
\* analysis loop selected by CLAUSE_LEARNING.
AnalysisSets(asg, conflict, level, opts) ==
    LET lvl(literal) == get_assignment(asg, literal).decision_level
        a0 == [current_level_literals |->
                   {-conflict[i] : i \in
                       {k \in 1..Len(conflict) : lvl(conflict[k]) = level}},
               previous_level_literals |->
                   {<<-conflict[i], lvl(conflict[i])>> : i \in
                       {k \in 1..Len(conflict) : lvl(conflict[k]) # level}},
               all_literals |-> {-conflict[i] : i \in 1..Len(conflict)}]
    IN IF CLAUSE_LEARNING \in opts
       THEN analyze_current_level(
                asg, a0, level, Len(asg.assignment_history))
       ELSE analyze_decision_literal(asg, a0, level)

\* All orders in which a Python set with the elements S can be iterated.
Orders(S) ==
    {s \in [1..Cardinality(S) -> S] : \A x \in S : \E k \in DOMAIN s : s[k] = x}

\* A faulty variant of LearnedClauseOf: the literals of the lower levels are
\* left out of the clause.
LearnedClauseOf_UipOnly(uip, previous) == <<-uip>>

\* CDCLSolver.analyzeConflict, line 160: the clause built from the popped uip.
\* previous is previous_level_literals in the order the set is iterated.
LearnedClauseOf(uip, previous) ==
    <<-uip>> \o [k \in 1..Len(previous) |-> -previous[k][1]]

\* CDCLSolver.analyzeConflict, line 161
NewDecisionLevel(previous_level_literals) ==
    IF previous_level_literals = {} THEN 0
    ELSE SetMax({pl[2] : pl \in previous_level_literals})

(***************************************************************************)
(* cdcl.py: backtracking and learning.                                     *)
(***************************************************************************)
\* A faulty variant of literals_to_keep: one literal more is kept.
literals_to_keep_OneMore(asg, level) ==
    LET h == asg.assignment_history
        low == {k \in 1..Len(h) :
                   get_assignment(asg, h[k]).decision_level <= level}
    IN IF low = {} THEN 1 ELSE IF SetMax(low) < Len(h) THEN SetMax(low) + 1
                                ELSE SetMax(low)

\* A faulty variant of literals_to_keep: "level < decision_level" in the
\* test of line 267.
literals_to_keep_Strict(asg, level) ==
    LET h == asg.assignment_history
        low == {k \in 1..Len(h) :
                   get_assignment(asg, h[k]).decision_level < level}
    IN IF low = {} THEN 0 ELSE SetMax(low)

\* CDCLSolver.backtrack, literals_to_keep: the position after the last
\* literal of the history whose level is <= level (0 if there is none)
literals_to_keep(asg, level) ==
    LET h == asg.assignment_history
        low == {k \in 1..Len(h) :
                   get_assignment(asg, h[k]).decision_level <= level}
    IN IF low = {} THEN 0 ELSE SetMax(low)

\* A faulty variant of backtrack: nothing is unassigned.
\* A faulty variant of backtrack: an unassigned variable also gets its
\* initial polarity back.
backtrack_ForgettingPolarity(asg, level) ==
    IF asg.assignment_history = <<>> THEN asg
    ELSE
      LET h == asg.assignment_history
          keep == literals_to_keep(asg, level)
          dropped == {Abs(h[k]) : k \in (keep + 1)..Len(h)}
      IN [asg EXCEPT
            !.assignments =
                [v \in DOMAIN @ |->
                    IF v \in dropped
                    THEN [@[v] EXCEPT !.is_assigned = FALSE,
                                      !.polarity = -v]
                    ELSE @[v]],
            !.assignment_history = SubSeq(h, 1, keep)]

backtrack_KeepingTrail(asg, level) == asg

\* CDCLSolver.backtrack
backtrack(asg, level) ==
    IF asg.assignment_history = <<>> THEN asg
    ELSE
      LET h == asg.assignment_history
          keep == literals_to_keep(asg, level)
          dropped == {Abs(h[k]) : k \in (keep + 1)..Len(h)}
      IN [asg EXCEPT
            !.assignments =
                [v \in DOMAIN @ |->
                    IF v \in dropped
                    THEN [@[v] EXCEPT !.is_assigned = FALSE] ELSE @[v]],
            !.assignment_history = SubSeq(h, 1, keep)]

\* history_indices.get(-x, float('-inf')) of sort_learned_clause, where
\* history_indices = {-y: i for i, y in enumerate(history)}: the (0-based)
\* position i of the history literal y whose key -y is -x, -1 standing for -inf
HistoryIndex(h, x) ==
    LET at == {k \in 1..Len(h) : -h[k] = -x}
    IN IF at = {} THEN -1 ELSE SetMax(at) - 1

\* sorted(..., reverse=True): stable insertion of x into a sequence that is
\* sorted by decreasing key
RECURSIVE InsertByKey(_, _, _)
InsertByKey(sorted, x, h) ==
    IF sorted = <<>> THEN <<x>>
    ELSE IF HistoryIndex(h, Head(sorted)) >= HistoryIndex(h, x)
         THEN <<Head(sorted)>> \o InsertByKey(Tail(sorted), x, h)
         ELSE <<x>> \o sorted

RECURSIVE SortByKey(_, _)
SortByKey(s, h) ==
    IF s = <<>> THEN <<>>
    ELSE InsertByKey(SortByKey(SubSeq(s, 1, Len(s) - 1), h), s[Len(s)], h)

\* CDCLSolver.sort_learned_clause
sort_learned_clause(clause, asg) ==
    LET unassigned == {i \in 1..Len(clause) :
                          ~get_assignment(asg, clause[i]).is_assigned}
        c1 == IF unassigned = {} THEN clause
              ELSE Swap(clause, 1, SetMin(unassigned))
    IN IF c1 = <<>> THEN c1
       ELSE <<c1[1]>> \o SortByKey(Tail(c1), asg.assignment_history)

\* CDCLSolver.check_parents_in_clause
check_parents_in_clause(parents, clause_set) ==
    \A k \in 1..Len(parents) : -parents[k] \in clause_set

\* A faulty variant of to_remove: a literal without parents (a decision) is
\* removed as well ("parents and" left out of line 308).
to_remove_WithDecisions(clause, asg) ==
    SelectSeq(Tail(clause),
              LAMBDA literal :
                  check_parents_in_clause(
                      get_assignment(asg, literal).parents, Range(clause)))

\* the to_remove list of minimize_learned_clause
to_remove(clause, asg) ==
    SelectSeq(Tail(clause),
              LAMBDA literal :
                  LET parents == get_assignment(asg, literal).parents
                  IN parents # <<>> /\
                     check_parents_in_clause(parents, Range(clause)))

\* A faulty variant of RemoveFirst: list.pop() instead of list.remove(x).
RemoveFirst_Pop(s, x) ==
    IF s = <<>> THEN s ELSE SubSeq(s, 1, Len(s) - 1)

\* list.remove(x): drop the first occurrence of x
RemoveFirst(s, x) ==
    LET at == {k \in 1..Len(s) : s[k] = x}
    IN IF at = {} THEN s ELSE RemoveAt(s, SetMin(at))

RECURSIVE RemoveEach(_, _)
RemoveEach(s, xs) ==
    IF xs = <<>> THEN s ELSE RemoveEach(RemoveFirst(s, Head(xs)), Tail(xs))

\* CDCLSolver.minimize_learned_clause, the clause
minimize_learned_clause(clause, asg, opts) ==
    IF CLAUSE_MINIMIZATION \notin opts THEN clause
    ELSE RemoveEach(clause, to_remove(clause, asg))

\* A faulty variant of LbdOf: the literal at position 0 is not counted
\* (learned_clause[1:] instead of learned_clause in line 330).
LbdOf_WithoutAsserting(clause, asg) ==
    Cardinality({get_assignment(asg, clause[k]).decision_level :
                    k \in 2..Len(clause)})

\* the LBD value of learn_new_clause, lines 330-331
LbdOf(clause, asg) ==
    Cardinality({get_assignment(asg, clause[k]).decision_level :
                    k \in 1..Len(clause)})

(***************************************************************************)
(* cdcl.py: restarts and clause deletion.                                  *)
(***************************************************************************)
\* math.floor(math.log(i, 2)) for i >= 1
RECURSIVE FloorLog2(_)
FloorLog2(i) == IF i < 2 THEN 0 ELSE 1 + FloorLog2(i \div 2)

\* CDCLSolver.luby
RECURSIVE luby(_)
luby(i) ==
    LET k == FloorLog2(i) + 1
    IN IF i = 2^k - 1 THEN 2^(k - 1) ELSE luby(i - 2^(k - 1) + 1)

\* the watch-list update of deleteClause for the literals of clause[:2]
RECURSIVE DiscardFirstTwo(_, _, _, _)
DiscardFirstTwo(asg, clause, i, k) ==
    IF k > 2 \/ k > Len(clause) THEN asg
    ELSE DiscardFirstTwo(
             discard_watched_clause(asg, i, clause[k]), clause, i, k + 1)

RECURSIVE ReplaceFirstTwo(_, _, _, _, _)
ReplaceFirstTwo(asg, clause, old_index, new_index, k) ==
    IF k > 2 \/ k > Len(clause) THEN asg
    ELSE ReplaceFirstTwo(
             replace_watched_clause(asg, old_index, new_index, clause[k]),
             clause, old_index, new_index, k + 1)

\* A faulty variant of deleteClause: the LBD values are not swapped with
\* the clauses.
deleteClause_LbdNotSwapped(d, i) ==
    LET n == Len(d.cnf)
        a1 == DiscardFirstTwo(d.assignments, d.cnf[i + 1], i, 1)
        moved == i < n - 1
        cnf1 == IF moved THEN Swap(d.cnf, i + 1, n) ELSE d.cnf
        a2 == IF moved
              THEN ReplaceFirstTwo(a1, cnf1[i + 1], n - 1, i, 1) ELSE a1
    IN [cnf |-> SubSeq(cnf1, 1, n - 1),
        assignments |-> a2,
        lbd |-> SubSeq(d.lbd, 1, n - 1),
        deleted_clauses |-> d.deleted_clauses + 1,
        proof_ref |-> [k \in DOMAIN d.proof_ref |->
                          IF d.proof_ref[k] = i + 1 THEN 0
                          ELSE IF d.proof_ref[k] = n THEN i + 1
                          ELSE d.proof_ref[k]]]

\* CDCLSolver.deleteClause on the state d = [cnf, assignments, lbd,
\* deleted_clauses, proof_ref], i the 0-based index of the clause
deleteClause(d, i) ==
    LET n == Len(d.cnf)
        a1 == DiscardFirstTwo(d.assignments, d.cnf[i + 1], i, 1)
        moved == i < n - 1
        cnf1 == IF moved THEN Swap(d.cnf, i + 1, n) ELSE d.cnf
        lbd1 == IF moved THEN Swap(d.lbd, i + 1, n) ELSE d.lbd
        a2 == IF moved
              THEN ReplaceFirstTwo(a1, cnf1[i + 1], n - 1, i, 1) ELSE a1
    IN [cnf |-> SubSeq(cnf1, 1, n - 1),
        assignments |-> a2,
        lbd |-> SubSeq(lbd1, 1, n - 1),
        deleted_clauses |-> d.deleted_clauses + 1,
        proof_ref |-> [k \in DOMAIN d.proof_ref |->
                          IF d.proof_ref[k] = i + 1 THEN 0
                          ELSE IF d.proof_ref[k] = n THEN i + 1
                          ELSE d.proof_ref[k]]]

\* lbd[i] > self.lbdLimit, the limit being the fraction num/den
AboveLimit(x, limit) == x * limit.den > limit.num

\* the deletion loop of apply_restart_policy (i from len(cnf) - 1 down to
\* oldLength): the iterations that delete nothing change nothing, so the loop
\* goes from one deleting index to the next lower one
RECURSIVE DeletionPass(_, _, _, _)
DeletionPass(d, i, oldLength, limit) ==
    LET hits == {j \in oldLength..i : AboveLimit(d.lbd[j + 1], limit)}
    IN IF hits = {} THEN d
       ELSE DeletionPass(deleteClause(d, SetMax(hits)), SetMax(hits) - 1,
                         oldLength, limit)

\* self.lbdLimit *= self.lbdFactor with lbdFactor = 1.1
GrowLimit(limit) == [num |-> limit.num * 11, den |-> limit.den * 10]

\* A faulty variant of RestartDue: the comparison is not strict.
RestartDue_NotStrict(slv) ==
    slv.conflicts - slv.old_conflicts >= luby_num * luby(slv.restarts + 1)

\* the condition of apply_restart_policy, line 242
RestartDue(slv) ==
    slv.conflicts - slv.old_conflicts > luby_num * luby(slv.restarts + 1)

(***************************************************************************)
(* cdcl.py: the decision heuristics.                                       *)
(***************************************************************************)
\* A faulty variant of Unassigned: every variable, assigned or not.
Unassigned_All(asg) == DOMAIN asg.assignments

\* the list unassigned of both heuristics, as variables in list order
Unassigned(asg) ==
    {v \in DOMAIN asg.assignments : ~asg.assignments[v].is_assigned}

\* VSIDSHeuristic.decide: max() returns the first variable of maximal score
vsids_decide(asg) ==
    LET u == Unassigned(asg)
        score(v) == asg.assignments[v].vsids_score
        best == SetMin({v \in u : \A w \in u : score(w) <= score(v)})
    IN IF u = {} THEN {} ELSE {asg.assignments[best].polarity}

\* RandomHeuristic.decide: random.choice over the unassigned variables; the
\* generator is never seeded by the program, so every one can be drawn
random_decide(asg) ==
    {asg.assignments[v].polarity : v \in Unassigned(asg)}

\* decision_heuristic.decide: the literals a decision can return
DecideChoices(asg, opts) ==
    IF VSIDS \in opts THEN vsids_decide(asg) ELSE random_decide(asg)

(***************************************************************************)
(* The inputs: the CNFs read_cnf can return, up to the bounds.  read_cnf   *)
(* sorts every clause by variable and renumbers the variables to 1..n.     *)
(***************************************************************************)
Literals == {l \in -NumVars..NumVars : l # 0}

Clauses ==
    UNION {{c \in [1..len -> Literals] :
               \A k \in 1..(len - 1) : Abs(c[k]) <= Abs(c[k + 1])} :
           len \in 0..MaxLen}

VarsOf(clauses) ==
    UNION {{Abs(clauses[i][j]) : j \in 1..Len(clauses[i])} :
              i \in 1..Len(clauses)}

GeneratedCNFs ==
    {f \in UNION {[1..m -> Clauses] : m \in 0..MaxClauses} :
        VarsOf(f) = 1..Cardinality(VarsOf(f))}

\* the unit-only chain of the end-to-end scenarios
ChainCNF == << <<1>>, <<-1, 2>>, <<-2, 3>>, <<-3, 4>>, <<-4, -5>> >>

\* every clause over three variables: unsatisfiable, conflicts at level 3
FullCNF3 ==
    << <<1, 2, 3>>, <<1, 2, -3>>, <<1, -2, 3>>, <<1, -2, -3>>,
       <<-1, 2, 3>>, <<-1, 2, -3>>, <<-1, -2, 3>>, <<-1, -2, -3>> >>

\* the third end-to-end scenario
Scenario3 == << <<1, 2>>, <<-1, 2>>, <<-2, 3>> >>

\* satisfiable; the clause learned at the first conflict has a literal that
\* minimization removes
MinCNF == << <<1, 3, 4>>, <<2, 3, -4>>, <<1, -2>> >>

\* unsatisfiable; minimization shortens a learned clause of the refutation
UnsatMinCNF ==
    << <<1, 2, 3>>, <<2, -3, 4>>, <<-1, -4>>, <<2, 3>>, <<1, 2, -4>>,
       <<1, 3>>, <<-2, 4>>, <<1, -2, -4>> >>

\* unsatisfiable; propagation swaps the watches of a learned clause of three
\* literals after it was logged
ReorderCNF == << <<2, 3, -4>>, <<4>>, <<1, 2, -3>>, <<-2>>, <<-1>>, <<1, 4>> >>

\* satisfiable; with learning off a clause of the decisions is left with a
\* false literal at one watched position and an unassigned one at the other
WatchCNF == << <<1, 3, -4>>, <<-3, -4>>, <<-3, 4>>, <<2, 3, 4>> >>

\* satisfiable; the same happens to a clause learned with learning on
WatchLearnCNF ==
    << <<3, -5>>, <<-4, -5>>, <<1, 4, 5>>, <<1, -4, 5>>, <<2, -3, 4>> >>

\* satisfiable; the clause learned at the first conflict (level 3) has
\* literals of the levels 1 and 2
SortCNF == << <<3, -5>>, <<2, 3, -4>>, <<1, 4, 5>> >>

Scenarios ==
    {ChainCNF, FullCNF3, Scenario3, MinCNF, UnsatMinCNF, ReorderCNF,
     WatchCNF, WatchLearnCNF, SortCNF}

Inputs == GeneratedCNFs \cup Scenarios

\* the unit clauses <<1>>, ..., <<n>>
UnitCNF(n) == [i \in 1..n |-> <<i>>]

\* f with every variable renumbered by +n
Shift(f, n) ==
    [i \in 1..Len(f) |->
        [j \in 1..Len(f[i]) |-> IF f[i][j] > 0 THEN f[i][j] + n ELSE f[i][j] - n]]

\* Inputs on which the restart policy fires: luby_num unit clauses give
\* luby_num conflicts, the clauses after them the conflicts that follow.
\* Satisfiable; the restart comes at decision level 1 and unassigns literals.
RestartSatCNF ==
    UnitCNF(luby_num) \o
    Shift(<< <<1, 2, -3>>, <<-1, 3>>, <<2, 3>>, <<-1, -2, -3>> >>, luby_num)

\* Unsatisfiable; the search goes on after the restart and is refuted.
RestartUnsatCNF == UnitCNF(luby_num) \o Shift(FullCNF3, luby_num)

RestartInputs == {RestartSatCNF, RestartUnsatCNF}

(***************************************************************************)
(* The pigeonhole generator gens/php.py and the reader read_cnf.           *)
(***************************************************************************)
\* the largest number of holes the search is run on
PhpMax == 2

\* the largest number of holes the generator is run on
PhpCountMax == 4

\* the pairs i1 < i2 of range(n + 1) in the order of the loops of lines 21-22
RECURSIVE PigeonPairs(_, _, _)
PigeonPairs(i1, i2, n) ==
    IF i1 > n THEN <<>>
    ELSE IF i2 > n THEN PigeonPairs(i1 + 1, i1 + 2, n)
    ELSE << <<i1, i2>> >> \o PigeonPairs(i1, i2 + 1, n)

\* lines 13-17: pigeon i (0-based) is in at least one nest
AtLeastOneNest(n) ==
    [i \in 1..(n + 1) |-> [j \in 1..n |-> (i - 1) + (j - 1) * (n + 1) + 1]]

\* lines 20-23 without the clauses that forbid a pair of pigeons in a nest
AtMostOnePigeon_Dropped(j, n) == <<>>

\* lines 20-23: no two pigeons in nest j, j + 1, ..., n - 1 (0-based)
RECURSIVE AtMostOnePigeon(_, _)
AtMostOnePigeon(j, n) ==
    IF j >= n THEN <<>>
    ELSE LET pairs == PigeonPairs(0, 1, n)
         IN [k \in 1..Len(pairs) |->
                << -(pairs[k][1] + j * (n + 1) + 1),
                   -(pairs[k][2] + j * (n + 1) + 1) >>]
            \o AtMostOnePigeon(j + 1, n)

\* the file generate_php_cnf_file(n) writes for n >= 1: the two numbers of
\* the problem line and the clause lines
generate_php_cnf_file(n) ==
    LET clauses == AtLeastOneNest(n) \o AtMostOnePigeon(0, n)
    IN [variables |-> n * (n + 1),
        clauses |-> Len(clauses),
        lines |-> clauses]

\* clause.sort(key=abs): a stable insertion sort by variable
RECURSIVE SortByAbs(_)
SortByAbs(clause) ==
    IF clause = <<>> THEN <<>>
    ELSE LET rest == SortByAbs(Tail(clause))
             x == Head(clause)
             before == SelectSeq(rest, LAMBDA y : Abs(y) < Abs(x))
             after == SelectSeq(rest, LAMBDA y : Abs(y) >= Abs(x))
         IN before \o <<x>> \o after

\* var_map of read_cnf: the rank of a variable among those of the file
var_map(variables, v) == Cardinality({w \in variables : w <= v})

\* read_cnf on the clause lines of a file
read_cnf(lines) ==
    LET sorted == [i \in 1..Len(lines) |-> SortByAbs(lines[i])]
        variables == VarsOf(sorted)
    IN [i \in 1..Len(sorted) |->
           [j \in 1..Len(sorted[i]) |->
               IF sorted[i][j] > 0
               THEN var_map(variables, sorted[i][j])
               ELSE -var_map(variables, -sorted[i][j])]]

\* the pigeonhole instances the search is run on
PhpInputs == {read_cnf(generate_php_cnf_file(n).lines) : n \in 1..PhpMax}

(***************************************************************************)
(* The DPLL program abgabe4/dpll.py.  A clause is a frozenset of literals, *)
(* the CNF a set of clauses, given here in the order in which the set is   *)
(* iterated; an assignment is a set of literals.                           *)
(***************************************************************************)
\* the bounds of the CNFs DPLL is run on
DpllNumVars == 3
DpllMaxLen == 3
DpllMaxClauses == 3

\* unit_propagation, lines 18-34, from the k-th clause on
RECURSIVE UnitPropagationLoop(_, _, _)
UnitPropagationLoop(clauses, k, assigned_literals) ==
    IF k > Len(clauses) THEN assigned_literals
    ELSE LET clause == clauses[k]
             unresolved_literals ==
                 IF clause \cap assigned_literals # {} THEN {}
                 ELSE {literal \in clause : -literal \notin assigned_literals}
         IN UnitPropagationLoop(clauses, k + 1,
                IF Cardinality(unresolved_literals) = 1
                THEN assigned_literals \cup unresolved_literals
                ELSE assigned_literals)

unit_propagation(clauses, assigned_literals) ==
    UnitPropagationLoop(clauses, 1, assigned_literals)

pure_literal_elimination(clauses, assigned_literals, enable) ==
    IF ~enable THEN assigned_literals
    ELSE LET all_literals ==
                 UNION {clauses[k] : k \in {j \in 1..Len(clauses) :
                                        clauses[j] \cap assigned_literals = {}}}
         IN assigned_literals \cup
            {literal \in all_literals :
                /\ -literal \notin assigned_literals
                /\ -literal \notin all_literals}

\* the literals get_decision_variable can return
get_decision_variable(clauses, assigned_literals) ==
    LET all_literals == UNION {clauses[k] : k \in 1..Len(clauses)}
    IN (all_literals \ assigned_literals)
           \ {-literal : literal \in assigned_literals}

\* is_finished, from the k-th clause on
RECURSIVE IsFinishedLoop(_, _, _)
IsFinishedLoop(clauses, k, assigned_literals) ==
    IF k > Len(clauses) THEN 1
    ELSE IF \A literal \in clauses[k] : -literal \in assigned_literals THEN -1
    ELSE IF \E literal \in clauses[k] : literal \in assigned_literals
         THEN IsFinishedLoop(clauses, k + 1, assigned_literals)
    ELSE 0

is_finished(clauses, assigned_literals) ==
    IsFinishedLoop(clauses, 1, assigned_literals)

\* the while loop of DPLL, lines 99-104
RECURSIVE SimplifyLoop(_, _, _)
SimplifyLoop(clauses, assigned_literals, enable) ==
    LET after == unit_propagation(clauses,
                     pure_literal_elimination(clauses, assigned_literals, enable))
    IN IF Cardinality(after) = Cardinality(assigned_literals) THEN after
       ELSE SimplifyLoop(clauses, after, enable)

\* A faulty variant of Branch: the second branch is never searched.
Branch_NegativeOnly(result_negative, result_positive) == result_negative

\* lines 113-116: what DPLL returns, given what the two recursive calls can
\* return
Branch(result_negative, result_positive) ==
    {r \in result_negative : r.sat} \cup
    (IF \E r \in result_negative : ~r.sat THEN result_positive ELSE {})

\* the results DPLL(cnf, assigned_literals) can return: one per choice of
\* next(iter(unassigned_literals)) at each decision
RECURSIVE DPLL(_, _, _)
DPLL(clauses, assigned_literals, enable) ==
    LET assigned == SimplifyLoop(clauses, assigned_literals, enable)
        finished == is_finished(clauses, assigned)
    IN IF finished = 1 THEN {[sat |-> TRUE, value |-> Some(assigned)]}
       ELSE IF finished = -1 THEN {[sat |-> FALSE, value |-> None]}
       ELSE UNION {Branch(DPLL(clauses, assigned \cup {-decision_var}, enable),
                          DPLL(clauses, assigned \cup {decision_var}, enable)) :
                      decision_var \in get_decision_variable(clauses, assigned)}

\* the clauses read_cnf of dpll.py can return
DpllLiterals == {l \in -DpllNumVars..DpllNumVars : l # 0}

DpllClauses == {c \in SUBSET DpllLiterals : Cardinality(c) <= DpllMaxLen}

\* the CNFs it can return, in every iteration order
DpllInputs ==
    UNION {{f \in [1..m -> DpllClauses] :
               \A i, j \in 1..m : i # j => f[i] # f[j]} :
           m \in 0..DpllMaxClauses}

\* the DPLL program is not run
NoDPLL == [pos |-> "none", cnf |-> <<>>,
           enable_pure_literal_elimination |-> FALSE, returned |-> None]

\* the Davis-Putnam program is not run
NoDP == [pos |-> "none"]

\* the 2-SAT program is not run
NoSat2 == [pos |-> "none"]

\* luby is not called on its own
NoLubyCall == [pos |-> "none"]

NoOtherPrograms ==
    /\ dp = NoDP
    /\ sat2 = NoSat2
    /\ luby_call = NoLubyCall

(***************************************************************************)
(* The driver CDCLSolver.CDCL as a state machine.                          *)
(***************************************************************************)
\* CDCLSolver.__init__
NewSolver ==
    [unit_propagations |-> 0,
     decisions |-> 0,
     conflicts |-> 0,
     old_conflicts |-> 0,
     learned_clauses |-> 0,
     deleted_clauses |-> 0,
     minimalizations |-> 0,
     max_length_learned_clause |-> 0,
     restarts |-> 0,
     lbdLimit |-> [num |-> 10, den |-> 1]]

original_cnf_size == Len(input)

num_literals == get_count(input)

\* CDCL, lines 355-362, for the input f and the options opts
InitWith(f, opts) ==
    /\ input = f
    /\ options = opts
    /\ cnf = f
    /\ proof_cnf = f
    /\ proof_ref = [k \in 1..Len(f) |-> k]
    /\ assignments = NewAssignments(get_count(f), f)
    /\ lbd = [i \in 1..Len(f) |-> 0]
    /\ decision_level = 0
    /\ conflict_clause = None
    /\ learned_clause = <<>>
    /\ solver = NewSolver
    /\ heuristic_b = 2 * ScoreScale
    /\ pc = "loop"
    /\ result = [status |-> "RUNNING", value |-> <<>>]
    /\ dpll = NoDPLL
    /\ NoOtherPrograms

\* every bounded input under every combination of the options
Init == \E f \in Inputs : \E opts \in SUBSET SolverOptions : InitWith(f, opts)

\* the restart inputs under the options that restart; VSIDS makes the
\* decisions of these long runs deterministic
InitRestart ==
    \E f \in RestartInputs :
        \E opts \in {o \in SUBSET SolverOptions : {VSIDS, RESTARTS} \subseteq o} :
            InitWith(f, opts)

\* CDCL, lines 364-367, and CDCLSolver.decide: the heuristic returns a literal,
\* or None when no variable is unassigned, and then nothing is assigned
Decide ==
    /\ pc = "loop"
    /\ Len(assignments.assignment_history) < num_literals
    /\ IF DecideChoices(assignments, options) = {}
       THEN UNCHANGED assignments
       ELSE \E literal \in DecideChoices(assignments, options) :
               assignments' =
                   set_literal(assignments, literal, decision_level + 1, <<>>)
    /\ decision_level' = decision_level + 1
    /\ solver' = [solver EXCEPT !.decisions = @ + 1]
    /\ pc' = "propagate"
    /\ UNCHANGED <<dpll, dp, sat2, luby_call, options, input, cnf, proof_cnf, proof_ref,
                   lbd, conflict_clause,
                   learned_clause, heuristic_b, result>>

\* A faulty variant of ReturnedProof: the slice starts one entry early.
ReturnedProof_OneEarly(proof, size) ==
    SubSeq(proof, size, Len(proof)) \o << <<>> >>

\* CDCL, line 376: proof_cnf[original_cnf_size:] + [[]]
ReturnedProof(proof, size) ==
    SubSeq(proof, size + 1, Len(proof)) \o << <<>> >>

\* CDCL, lines 364 and 390
ReturnSAT ==
    /\ pc = "loop"
    /\ ~(Len(assignments.assignment_history) < num_literals)
    /\ result' = [status |-> "SAT", value |-> assignments.assignment_history]
    /\ pc' = "done"
    /\ UNCHANGED <<dpll, dp, sat2, luby_call, options, input, cnf, proof_cnf, proof_ref,
                   assignments, lbd,
                   decision_level, conflict_clause, learned_clause, solver,
                   heuristic_b>>

\* The proof log after the clauses of the store changed in place: an entry
\* that is still a clause of the store is that clause.
SharedClauses(proof, ref, clauses) ==
    [k \in 1..Len(proof) |->
        IF ref[k] # 0 THEN clauses[ref[k]] ELSE proof[k]]

\* CDCL, lines 370 and 384
Propagate ==
    /\ pc = "propagate"
    /\ LET p == propagate(cnf, assignments, decision_level, solver) IN
          /\ cnf' = p.cnf
          /\ proof_cnf' = SharedClauses(proof_cnf, proof_ref, p.cnf)
          /\ assignments' = p.assignments
          /\ solver' = [solver EXCEPT
                           !.unit_propagations = p.unit_propagations,
                           !.conflicts = p.conflicts]
          /\ conflict_clause' = p.ret
          /\ pc' = IF p.ret # None THEN "conflict" ELSE "restart"
    /\ UNCHANGED <<dpll, dp, sat2, luby_call, options, input, proof_ref, lbd, decision_level,
                   learned_clause, heuristic_b, result>>

\* CDCL, lines 373-376
ReturnUNSAT ==
    /\ pc = "conflict"
    /\ decision_level = 0
    /\ result' = [status |-> "UNSAT",
                  value |-> ReturnedProof(proof_cnf, original_cnf_size)]
    /\ pc' = "done"
    /\ UNCHANGED <<dpll, dp, sat2, luby_call, options, input, cnf, proof_cnf, proof_ref,
                   assignments, lbd,
                   decision_level, conflict_clause, learned_clause, solver,
                   heuristic_b>>

\* CDCL, line 379, and CDCLSolver.analyzeConflict.  set.pop() returns some
\* element of current_level_literals and raises KeyError on the empty set;
\* the tail of the clause follows the iteration order of the set.
AnalyzeConflict ==
    /\ pc = "conflict"
    /\ decision_level # 0
    /\ LET a == AnalysisSets(assignments, conflict_clause[1], decision_level,
                             options)
       IN IF a.current_level_literals = {}
          THEN /\ result' = [status |-> "ERROR", value |-> <<>>]
               /\ pc' = "done"
               /\ UNCHANGED <<assignments, decision_level, learned_clause,
                              solver, heuristic_b>>
          ELSE /\ \E uip \in a.current_level_literals :
                  \E previous \in Orders(a.previous_level_literals) :
                      /\ learned_clause' = LearnedClauseOf(uip, previous)
                      /\ solver' = [solver EXCEPT
                             !.learned_clauses = @ + 1,
                             !.max_length_learned_clause =
                                 IF 1 + Len(previous) > @
                                 THEN 1 + Len(previous) ELSE @]
               /\ decision_level' =
                      NewDecisionLevel(a.previous_level_literals)
               /\ IF VSIDS \in options
                  THEN /\ assignments' = update_scores(
                              assignments, a.all_literals, heuristic_b)
                       /\ heuristic_b' = DecayBump(heuristic_b)
                  ELSE UNCHANGED <<assignments, heuristic_b>>
               /\ pc' = "backtrack"
               /\ UNCHANGED result
    /\ UNCHANGED <<dpll, dp, sat2, luby_call, options, input, cnf, proof_cnf, proof_ref,
                   lbd, conflict_clause>>

\* CDCL, line 380
Backtrack ==
    /\ pc = "backtrack"
    /\ assignments' = backtrack(assignments, decision_level)
    /\ pc' = "learn"
    /\ UNCHANGED <<dpll, dp, sat2, luby_call, options, input, cnf, proof_cnf, proof_ref,
                   lbd, decision_level,
                   conflict_clause, learned_clause, solver, heuristic_b,
                   result>>

\* CDCL, line 381, and CDCLSolver.learn_new_clause
LearnNewClause ==
    /\ pc = "learn"
    /\ LET sorted == sort_learned_clause(learned_clause, assignments)
           clause == minimize_learned_clause(sorted, assignments, options)
           clause_index == Len(cnf)
           a2 == IF Len(clause) >= 1
                 THEN append_watched_clause(assignments, clause_index,
                                            clause[1])
                 ELSE assignments
           a3 == IF Len(clause) >= 2
                 THEN append_watched_clause(a2, clause_index, clause[2])
                 ELSE a2
       IN /\ learned_clause' = clause
          /\ cnf' = Append(cnf, clause)
          /\ proof_cnf' = Append(proof_cnf, clause)
          /\ proof_ref' = Append(proof_ref, Len(cnf) + 1)
          /\ lbd' = Append(lbd, LbdOf(clause, a3))
          /\ assignments' = set_literal(a3, clause[1], decision_level, clause)
          /\ solver' = [solver EXCEPT
                           !.learned_clauses = @ + 1,
                           !.minimalizations =
                               IF CLAUSE_MINIMIZATION \in options
                               THEN @ + 1 ELSE @,
                           !.unit_propagations = @ + 1]
    /\ pc' = "propagate"
    /\ UNCHANGED <<dpll, dp, sat2, luby_call, options, input, decision_level, conflict_clause,
                   heuristic_b, result>>

\* CDCL, line 387, and CDCLSolver.apply_restart_policy
ApplyRestartPolicy ==
    /\ pc = "restart"
    /\ IF RESTARTS \in options /\ RestartDue(solver)
       THEN LET a0 == backtrack(assignments, 0)
                d0 == [cnf |-> cnf, assignments |-> a0, lbd |-> lbd,
                       deleted_clauses |-> solver.deleted_clauses,
                       proof_ref |-> proof_ref]
                d == IF CLAUSE_DELETION \in options
                     THEN DeletionPass(d0, Len(cnf) - 1, original_cnf_size,
                                       solver.lbdLimit)
                     ELSE d0
            IN /\ cnf' = d.cnf
               /\ assignments' = d.assignments
               /\ lbd' = d.lbd
               /\ proof_ref' = d.proof_ref
               /\ solver' = [solver EXCEPT
                                !.restarts = @ + 1,
                                !.old_conflicts = solver.conflicts,
                                !.deleted_clauses = d.deleted_clauses,
                                !.lbdLimit =
                                    IF CLAUSE_DELETION \in options
                                    THEN GrowLimit(@) ELSE @]
               /\ decision_level' = 0
       ELSE UNCHANGED <<cnf, assignments, lbd, solver, decision_level,
                        proof_ref>>
    /\ pc' = "loop"
    /\ UNCHANGED <<dpll, dp, sat2, luby_call, options, input, proof_cnf, conflict_clause,
                   learned_clause, heuristic_b, result>>

Next ==
    \/ Decide
    \/ ReturnSAT
    \/ Propagate
    \/ ReturnUNSAT
    \/ AnalyzeConflict
    \/ Backtrack
    \/ LearnNewClause
    \/ ApplyRestartPolicy

\* the bounded inputs
Spec == Init /\ [][Next]_vars

\* the bounded inputs and the restart inputs
SpecRestart == (Init \/ InitRestart) /\ [][Next]_vars

\* the positions of CDCL
PcValues ==
    {"loop", "propagate", "conflict", "backtrack", "learn", "restart", "done"}

\* CDCL is one sequential program: until it has returned the interpreter
\* executes its next statement, and every action of Next moves pc
\* (StepsMovePc).  At each position but "done" one of the actions is enabled.
Advance == pc # "done" /\ pc' \in PcValues \ {pc}

StepsMovePc == [][pc' # pc]_vars

FairSpecRestart == SpecRestart /\ WF_pc(Advance)

\* the pigeonhole instances under every combination of the options
InitPhp == \E f \in PhpInputs : \E opts \in SUBSET SolverOptions : InitWith(f, opts)

\* the bounded inputs and the pigeonhole instances
SpecPhp == (Init \/ InitPhp) /\ [][Next]_vars

FairSpecPhp == SpecPhp /\ WF_pc(Advance)

(***************************************************************************)
(* The DPLL program, lines 146-149: one call of DPLL on the CNF read.      *)
(***************************************************************************)
cdcl_vars == <<options, input, cnf, proof_cnf, proof_ref, assignments, lbd,
               decision_level, conflict_clause, learned_clause, solver,
               heuristic_b, pc, result>>

\* the CDCL program is not run
NoCDCL ==
    /\ input = <<>>
    /\ options = {}
    /\ cnf = <<>>
    /\ proof_cnf = <<>>
    /\ proof_ref = <<>>
    /\ assignments = NewAssignments(0, <<>>)
    /\ lbd = <<>>
    /\ decision_level = 0
    /\ conflict_clause = None
    /\ learned_clause = <<>>
    /\ solver = NewSolver
    /\ heuristic_b = 2 * ScoreScale
    /\ pc = "done"
    /\ result = [status |-> "RUNNING", value |-> <<>>]

\* every bounded CNF, with and without --pure
InitDPLL ==
    /\ NoCDCL
    /\ NoOtherPrograms
    /\ \E f \in DpllInputs : \E pure \in BOOLEAN :
           dpll = [pos |-> "start", cnf |-> f,
                   enable_pure_literal_elimination |-> pure,
                   returned |-> None]

\* line 149: is_satisfiable, solution = solver.DPLL(cnf)
CallDPLL ==
    /\ dpll.pos = "start"
    /\ \E r \in DPLL(dpll.cnf, {}, dpll.enable_pure_literal_elimination) :
           dpll' = [dpll EXCEPT !.pos = "done", !.returned = Some(r)]
    /\ UNCHANGED <<cdcl_vars, dp, sat2, luby_call>>

NextDPLL == CallDPLL

SpecDPLL == InitDPLL /\ [][NextDPLL]_vars

(***************************************************************************)
(* An input on which the deletion pass deletes a clause.  A learned clause *)
(* is deleted when its LBD is above lbdLimit = 10, so it has at least 11   *)
(* literals, and a restart needs more than luby_num conflicts.             *)
(***************************************************************************)
\* the unit clauses of the input that come first
DelUnits == luby_num - 2

\* the literals of the long learned clause: one more than the first lbdLimit
DelClauseLen == NewSolver.lbdLimit.num + 1

\* the variables after the units: DelVar(1..11) make the long clause,
\* DelVar(12) is implied at the conflict, DelVar(13) and DelVar(14) are the
\* variables of the last two unit clauses
DelVar(k) == DelUnits + k

\* DelUnits unit clauses (one conflict each); two clauses over DelVar(1..12)
\* that conflict once DelVar(1..11) are decided false at the levels 1..11 (the
\* clause learned there has 11 literals of 11 levels); ten binary clauses by
\* which DelVar(13) falsifies DelVar(1..10); the unit clauses <<DelVar(13)>>
\* and <<DelVar(14)>> (the conflicts 100 and 101, each back at level 0)
DeletionCNF ==
    UnitCNF(DelUnits)
    \o << [k \in 1..(DelClauseLen + 1) |-> DelVar(k)],
          [k \in 1..(DelClauseLen + 1) |->
              IF k <= DelClauseLen THEN DelVar(k) ELSE -DelVar(k)] >>
    \o [i \in 1..(DelClauseLen - 1) |-> <<-DelVar(i), -DelVar(13)>>]
    \o << <<DelVar(13)>>, <<DelVar(14)>> >>

\* n updates of decision_heuristic.b; the test makes the value of b known
\* before the next update is applied to it
RECURSIVE DecayBumpTimes(_, _)
DecayBumpTimes(b, n) ==
    IF n = 0 \/ b < 0 THEN b ELSE DecayBumpTimes(DecayBump(b), n - 1)

\* decision_heuristic.b after n conflicts
BumpAfter(n) == DecayBumpTimes(2 * ScoreScale, n)

\* the two long clauses after propagate moved their watches: the literals of
\* DelVar(11) and DelVar(12) are at the watched positions
DelWatched(sign) ==
    <<DelVar(11), sign * DelVar(12)>> \o [i \in 1..(DelClauseLen - 1) |-> DelVar(i)]

\* the clause store at the 99th conflict: the input, then the clauses
\* <<1>>, ..., <<DelUnits>> learned at the first DelUnits conflicts
DelStore ==
    UnitCNF(DelUnits)
    \o << DelWatched(1), DelWatched(-1) >>
    \o [i \in 1..(DelClauseLen - 1) |-> <<-DelVar(i), -DelVar(13)>>]
    \o << <<DelVar(13)>>, <<DelVar(14)>> >>
    \o UnitCNF(DelUnits)

\* the Assignment objects at the 99th conflict: the variables of the units
\* are true at level 0, DelVar(1..11) are the decisions of the levels 1..11,
\* DelVar(12) is implied at level 11, the last two are unassigned
DelAssignment(v) ==
    LET k == v - DelUnits
        m0 == Len(DeletionCNF)
    IN IF v <= DelUnits
       THEN [Assignment(v) EXCEPT
                !.is_assigned = TRUE, !.polarity = v,
                !.vsids_score = BumpAfter(v - 1),
                !.watched_literals = <<v - 1, m0 + v - 1>>]
       ELSE IF k <= DelClauseLen
       THEN [Assignment(v) EXCEPT
                !.is_assigned = TRUE, !.decision_level = k,
                !.vsids_score = BumpAfter(DelUnits),
                !.watched_literals =
                    IF k = DelClauseLen THEN <<DelUnits, DelUnits + 1>>
                    ELSE <<>>,
                !.watched_neg_literals =
                    IF k = DelClauseLen THEN <<>> ELSE <<DelUnits + 1 + k>>]
       ELSE IF k = 12
       THEN [Assignment(v) EXCEPT
                !.is_assigned = TRUE, !.polarity = v,
                !.decision_level = DelClauseLen,
                !.parents =
                    <<-DelVar(11)>> \o
                    [i \in 1..(DelClauseLen - 1) |-> -DelVar(i)],
                !.vsids_score = BumpAfter(DelUnits),
                !.watched_literals = <<DelUnits>>,
                !.watched_neg_literals = <<DelUnits + 1>>]
       ELSE IF k = 13
       THEN [Assignment(v) EXCEPT
                !.watched_literals = <<DelUnits + DelClauseLen + 1>>,
                !.watched_neg_literals =
                    [i \in 1..(DelClauseLen - 1) |-> DelUnits + 1 + i]]
       ELSE [Assignment(v) EXCEPT
                !.watched_literals = <<DelUnits + DelClauseLen + 2>>]

\* the set previous_level_literals of the 99th analysis in the order in
\* which CPython iterates it (the literals of the levels 8, 7, 5, 4, 10, 1,
\* 6, 3, 2, 9)
DelLearnedOrder == <<8, 7, 5, 4, 10, 1, 6, 3, 2, 9>>

\* CDCL on DeletionCNF with VSIDS, restarts and deletion when analyzeConflict
\* has returned for the 99th time (line 379, before the backtrack of line
\* 380): the decisions -1, ..., -DelUnits each met their unit clause at level
\* 1 and were learned, then -DelVar(1), ..., -DelVar(11) were decided at the
\* levels 1..11, DelVar(12) was implied and the second long clause became
\* the conflict; the learned clause has one literal per level.
InitDeletion ==
    \E opts \in {o \in SUBSET SolverOptions :
                    {VSIDS, RESTARTS, CLAUSE_DELETION} \subseteq o} :
        /\ input = DeletionCNF
        /\ options = opts
        /\ cnf = DelStore
        /\ proof_cnf = DelStore
        /\ proof_ref = [k \in 1..Len(DelStore) |-> k]
        /\ assignments =
               [num_literals |-> DelVar(14),
                assignments |-> [v \in 1..DelVar(14) |-> DelAssignment(v)],
                assignment_history |->
                    [v \in 1..DelVar(12) |->
                        IF v <= DelUnits \/ v = DelVar(12) THEN v ELSE -v]]
        /\ lbd = [i \in 1..Len(DeletionCNF) |-> 0] \o [i \in 1..DelUnits |-> 1]
        /\ decision_level = DelClauseLen - 1
        /\ conflict_clause = Some(DelWatched(-1))
        /\ learned_clause =
               <<DelVar(11)>> \o
               [i \in 1..(DelClauseLen - 1) |-> DelVar(DelLearnedOrder[i])]
        /\ solver =
               [NewSolver EXCEPT
                   !.conflicts = DelUnits + 1,
                   !.decisions = DelUnits + DelClauseLen,
                   !.unit_propagations = DelUnits + 1,
                   !.learned_clauses = 2 * DelUnits + 1,
                   !.minimalizations =
                       IF CLAUSE_MINIMIZATION \in opts THEN DelUnits ELSE 0,
                   !.max_length_learned_clause = DelClauseLen]
        /\ heuristic_b = BumpAfter(DelUnits + 1)
        /\ pc = "backtrack"
        /\ result = [status |-> "RUNNING", value |-> <<>>]
        /\ dpll = NoDPLL
        /\ NoOtherPrograms

\* the bounded inputs and the run that deletes
SpecDeletion == (Init \/ InitDeletion) /\ [][Next]_vars

\* An input whose restart leaves a learned clause with a literal of level 0:
\* luby_num unit clauses (one conflict each), then two clauses that conflict
\* at level 2; the second holds the negation of the first unit.
RestartWatchCNF ==
    UnitCNF(luby_num)
    \o << <<luby_num + 1, luby_num + 2, luby_num + 3>>,
          <<-1, luby_num + 2, -(luby_num + 3)>> >>

\* An input whose restart is due when every variable is assigned: luby_num
\* unit clauses, then three clauses whose conflict at level 2 is followed by
\* a propagation at level 1 that assigns the last two variables.
RestartCompleteCNF ==
    UnitCNF(luby_num)
    \o << <<luby_num + 2, luby_num + 3>>,
          <<luby_num + 1, luby_num + 2, -(luby_num + 3)>>,
          <<-(luby_num + 2), luby_num + 3>> >>

RestartWatchInputs == {RestartWatchCNF, RestartCompleteCNF}

InitRestartWatch ==
    \E f \in RestartWatchInputs :
        \E opts \in {o \in SUBSET SolverOptions :
                        {VSIDS, RESTARTS} \subseteq o} :
            InitWith(f, opts)

\* the bounded inputs and the restarts above level 0 after conflict
\* luby_num + 1
SpecRestartWatch == (Init \/ InitRestartWatch) /\ [][Next]_vars

(***************************************************************************)
(* CDCLSolver.luby called on its own, for arguments up to 2^48.  Python's  *)
(* integers are unbounded; an integer of the model is the pair hi, lo of   *)
(* its digits to the base 2^RadixBits, its value being hi * LubyRadix + lo *)
(* with 0 <= lo < LubyRadix.                                               *)
(***************************************************************************)
RadixBits == 24

LubyRadix == 2^RadixBits

FromInt(i) == [hi |-> i \div LubyRadix, lo |-> i % LubyRadix]

\* 2**e
Pow2Wide(e) ==
    IF e < RadixBits THEN [hi |-> 0, lo |-> 2^e]
    ELSE [hi |-> 2^(e - RadixBits), lo |-> 0]

\* 2**k - 1
AllOnes(k) ==
    IF k <= RadixBits THEN [hi |-> 0, lo |-> 2^k - 1]
    ELSE [hi |-> 2^(k - RadixBits) - 1, lo |-> LubyRadix - 1]

\* a - b
WideSub(a, b) ==
    IF a.lo >= b.lo THEN [hi |-> a.hi - b.hi, lo |-> a.lo - b.lo]
    ELSE [hi |-> a.hi - b.hi - 1, lo |-> a.lo + LubyRadix - b.lo]

\* a + 1
WideSucc(a) ==
    IF a.lo + 1 = LubyRadix THEN [hi |-> a.hi + 1, lo |-> 0]
    ELSE [hi |-> a.hi, lo |-> a.lo + 1]

IsPositive(a) == a.hi > 0 \/ (a.hi = 0 /\ a.lo > 0)

\* the position of the highest set bit of a positive integer, 0 for 1
ExactFloorLog2(a) ==
    IF a.hi > 0 THEN RadixBits + FloorLog2(a.hi) ELSE FloorLog2(a.lo)

\* The number of bits at which the quotient of two doubles computed by
\* math.log(i, 2) is not below the next integer: for i = 2**48 - 1 it is
\* exactly 48.0, for every smaller i its floor is the exact one.
LogRoundsUpBits == 48

\* math.floor(math.log(i, 2)) for 1 <= i < 2**48, line 213
FloatFloorLog2(a) ==
    IF a = AllOnes(LogRoundsUpBits) THEN LogRoundsUpBits
    ELSE ExactFloorLog2(a)

\* what a call returns: a value, or the ValueError ("math domain error")
\* that math.log raises for an argument that is not positive
Returned(a) == [raised |-> FALSE, value |-> a]

RaisedValueError == [raised |-> TRUE, value |-> FromInt(0)]

\* CDCLSolver.luby on the integers of this section
RECURSIVE luby_wide(_)
luby_wide(i) ==
    IF ~IsPositive(i) THEN RaisedValueError
    ELSE LET k == FloatFloorLog2(i) + 1
         IN IF i = AllOnes(k) THEN Returned(Pow2Wide(k - 1))
            ELSE luby_wide(WideSucc(WideSub(i, Pow2Wide(k - 1))))

\* the arguments of the calls: 1..LubySmallMax, and 2**k - 1, 2**k and
\* 2**k + 1 below 2**48
LubySmallMax == 127

LubyArguments ==
    {FromInt(i) : i \in 1..LubySmallMax}
        \cup {AllOnes(k) : k \in 1..LogRoundsUpBits}
        \cup {Pow2Wide(k) : k \in 1..(LogRoundsUpBits - 1)}
        \cup {WideSucc(Pow2Wide(k)) : k \in 1..(LogRoundsUpBits - 1)}

InitLuby ==
    /\ NoCDCL
    /\ dpll = NoDPLL
    /\ dp = NoDP
    /\ sat2 = NoSat2
    /\ \E i \in LubyArguments :
           luby_call = [pos |-> "start", i |-> i, returned |-> None]

\* self.luby(i)
CallLuby ==
    /\ luby_call.pos = "start"
    /\ luby_call' = [luby_call EXCEPT !.pos = "done",
                                      !.returned = Some(luby_wide(luby_call.i))]
    /\ UNCHANGED <<cdcl_vars, dpll, dp, sat2>>

NextLuby == CallLuby

SpecLuby == InitLuby /\ [][NextLuby]_vars

(***************************************************************************)
(* The 2-SAT program abgabe2/sat_2.py.  A CNF is a list of clauses, a      *)
(* clause a list of literals.  assign_variable appends to the list object  *)
(* assignments it is given; the CNF lists are rebuilt, never changed.      *)
(***************************************************************************)
Sat2NumVars == 4

Sat2MaxLen == 2

Sat2MaxClauses == 2

Sat2Literals == {l \in -Sat2NumVars..Sat2NumVars : l # 0}

\* the clauses read_cnf of sat_2.py can return: one list of ints per line
Sat2Clauses == UNION {[1..len -> Sat2Literals] : len \in 0..Sat2MaxLen}

Sat2Inputs == UNION {[1..m -> Sat2Clauses] : m \in 0..Sat2MaxClauses}

\* SATSolver.assign_variable: the new CNF and the content of the list
\* object assignments after the call
assign_variable(clauses, assigned, literal) ==
    LET appended ==
            IF \E k \in 1..Len(assigned) : Abs(assigned[k]) = Abs(literal)
            THEN assigned ELSE Append(assigned, literal)
        kept == SelectSeq(clauses, LAMBDA clause : literal \notin Range(clause))
    IN [cnf |-> [k \in 1..Len(kept) |->
                    SelectSeq(kept[k], LAMBDA l : l # -literal)],
        assignments |-> appended]

\* SATSolver.unit_propagation: the first unit clause is assigned and the
\* scan starts again
RECURSIVE unit_propagation_2sat(_, _)
unit_propagation_2sat(clauses, assigned) ==
    LET units == {i \in 1..Len(clauses) : Len(clauses[i]) = 1}
    IN IF units = {} THEN [cnf |-> clauses, assignments |-> assigned]
       ELSE LET a == assign_variable(clauses, assigned,
                                     clauses[SetMin(units)][1])
            IN unit_propagation_2sat(a.cnf, a.assignments)

\* SATSolver.solve_2sat.  sat and value are the returned pair, value being
\* the content of the returned list object when the call returns; arg is
\* the content of the caller's list object assignments after the call.  The
\* first branch works on assignments.copy(), the second on the caller's
\* list itself.
RECURSIVE solve_2sat(_, _)
solve_2sat(clauses, assigned) ==
    LET u == unit_propagation_2sat(clauses, assigned)
    IN IF u.cnf = <<>>
       THEN [sat |-> TRUE, value |-> u.assignments, arg |-> u.assignments]
       ELSE IF \E k \in 1..Len(u.cnf) : u.cnf[k] = <<>>
       THEN [sat |-> FALSE, value |-> u.assignments, arg |-> u.assignments]
       ELSE
         LET literal == u.cnf[1][1]
             a1 == assign_variable(u.cnf, u.assignments, -literal)
             r1 == solve_2sat(a1.cnf, a1.assignments)
         IN IF r1.sat
            THEN [sat |-> TRUE, value |-> r1.arg, arg |-> u.assignments]
            ELSE LET a2 == assign_variable(u.cnf, u.assignments, literal)
                     r2 == solve_2sat(a2.cnf, a2.assignments)
                 IN [sat |-> r2.sat, value |-> r2.arg, arg |-> r2.arg]

InitSat2 ==
    /\ NoCDCL
    /\ dpll = NoDPLL
    /\ dp = NoDP
    /\ luby_call = NoLubyCall
    /\ \E f \in Sat2Inputs :
           sat2 = [pos |-> "start", cnf |-> f, returned |-> None]

\* SATSolver.solve: is_satisfiable, assignments = self.solve_2sat(cnf, [])
CallSolve2Sat ==
    /\ sat2.pos = "start"
    /\ sat2' = [sat2 EXCEPT !.pos = "done",
                            !.returned = Some(solve_2sat(sat2.cnf, <<>>))]
    /\ UNCHANGED <<cdcl_vars, dpll, dp, luby_call>>

NextSat2 == CallSolve2Sat

SpecSat2 == InitSat2 /\ [][NextSat2]_vars

(***************************************************************************)
(* The Davis-Putnam program abgabe3/dp.py.  The CNF is a set of frozensets *)
(* of literals; literal_counts is a dict, modelled as a function whose     *)
(* domain is the set of its keys.  The order in which a set or the keys of *)
(* the dict are iterated is not fixed by the program, so a list built from *)
(* a set has any order and max() returns any key of maximal value.         *)
(***************************************************************************)
DpNumVars == 3

DpMaxLen == 2

DpMaxClauses == 4

DpLiterals == {l \in -DpNumVars..DpNumVars : l # 0}

\* the clauses read_cnf_file can return: empty clauses are ignored
DpClauses ==
    {c \in SUBSET DpLiterals : Cardinality(c) \in 1..DpMaxLen}

\* three clauses of three literals and a unit clause: the propagation of
\* the unit leaves keys in literal_counts for literals that are gone
DpStaleCNF == {{1, 2, 3}, {1, -2, 3}, {-1, 2, -3}, {1}}

DpInputs ==
    {f \in SUBSET DpClauses : Cardinality(f) <= DpMaxClauses}
        \cup {DpStaleCNF}

\* literal_counts.get(k, 0), and literal_counts[k] of the defaultdict
DictGet(d, k) == IF k \in DOMAIN d THEN d[k] ELSE 0

\* literal_counts[k] = v
DictSet(d, k, v) == [x \in DOMAIN d \cup {k} |-> IF x = k THEN v ELSE d[x]]

\* del literal_counts[k]
DictDel(d, k) == [x \in DOMAIN d \ {k} |-> d[x]]

\* davis_putnam, lines 149-152: the occurrences of every literal
InitialCounts(clauses) ==
    [l \in UNION clauses |-> Cardinality({c \in clauses : l \in c})]

UnitClausesOf(clauses) == {c \in clauses : Cardinality(c) = 1}

\* perform_unit_propagation, lines 101-108: one iteration of its loop for
\* the literal of the popped unit clause
PropagateUnit(clauses, counts, literal) ==
    LET without == {c \in clauses : literal \notin c}
        decremented == DictSet(counts, literal, DictGet(counts, literal) - 1)
        deleted == IF decremented[literal] = 0
                   THEN DictDel(decremented, literal) ELSE decremented
    IN [cnf |-> {c \ {-literal} : c \in without},
        literal_counts |-> DictSet(deleted, -literal, 0)]

\* DavisPutnamSolver.remove_tautologies
remove_tautologies(clauses) ==
    {clause \in clauses : ~\E literal \in clause : -literal \in clause}

\* perform_pure_literal_elimination, line 81: the keys without a key for
\* their negation
PureLiterals(counts) == {lit \in DOMAIN counts : -lit \notin DOMAIN counts}

\* DavisPutnamSolver.perform_pure_literal_elimination
perform_pure_literal_elimination(clauses, counts) ==
    {clause \in clauses : clause \cap PureLiterals(counts) = {}}

\* A faulty variant of perform_subsumption_elimination: a clause is popped
\* when it is contained in another clause, so the longer clause is kept.
perform_subsumption_elimination_KeepingSupersets(clauses) ==
    {c \in clauses : ~\E d \in clauses : d # c /\ c \subseteq d}

\* DavisPutnamSolver.perform_subsumption_elimination: the clauses are
\* sorted by length and every clause that contains a clause kept before it
\* is popped; two different clauses of a set are never subsets of each
\* other with the longer one first, so what remains are the clauses that
\* contain no other clause, in every order of the sort
perform_subsumption_elimination(clauses) ==
    {c \in clauses : ~\E d \in clauses : d # c /\ d \subseteq c}

\* DavisPutnamSolver.resolve_clauses for every pair, lines 171-176
new_clauses(clauses, chosen_literal) ==
    {(c1 \cup c2) \ {chosen_literal, -chosen_literal} :
        c1 \in {c \in clauses : chosen_literal \in c},
        c2 \in {c \in clauses : -chosen_literal \in c}}

\* DavisPutnamSolver.select_literal: the keys max() can return
select_literal(counts) ==
    LET weight(l) == counts[l] + DictGet(counts, -l)
    IN {l \in DOMAIN counts : \A m \in DOMAIN counts : weight(m) <= weight(l)}

\* davis_putnam, lines 178-185: the step that resolves on chosen_literal
Resolve(clauses, counts, chosen_literal) ==
    LET new == new_clauses(clauses, chosen_literal)
        rest == {c \in clauses :
                    chosen_literal \notin c /\ -chosen_literal \notin c}
        keys == DOMAIN counts \cup UNION new
        counted == [l \in keys |->
                       DictGet(counts, l)
                           + Cardinality({c \in new : l \in c})]
    IN [cnf |-> new \cup rest,
        literal_counts |->
            DictSet(DictSet(counted, chosen_literal, 0), -chosen_literal, 0)]

InitDP ==
    /\ NoCDCL
    /\ dpll = NoDPLL
    /\ sat2 = NoSat2
    /\ luby_call = NoLubyCall
    /\ \E f \in DpInputs :
           dp = [pos |-> "simplify", input |-> f, cnf |-> f,
                 literal_counts |-> InitialCounts(f),
                 prev_cnf_size |-> -1, unit_clauses |-> <<>>,
                 returned |-> None]

\* line 156 with prev_cnf_size != len(cnf), lines 157 and 98: a pass of
\* the inner loop begins with the list of the unit clauses
DpBeginPass ==
    /\ dp.pos = "simplify"
    /\ dp.prev_cnf_size # Cardinality(dp.cnf)
    /\ \E units \in Orders(UnitClausesOf(dp.cnf)) :
           dp' = [dp EXCEPT !.pos = "units",
                            !.prev_cnf_size = Cardinality(dp.cnf),
                            !.unit_clauses = units]
    /\ UNCHANGED <<cdcl_vars, dpll, sat2, luby_call>>

\* perform_unit_propagation, lines 99-109: one iteration
DpUnitStep ==
    /\ dp.pos = "units"
    /\ dp.unit_clauses # <<>>
    /\ LET n == Len(dp.unit_clauses)
           unit == dp.unit_clauses[n]
           literal == CHOOSE l \in unit : TRUE
           p == PropagateUnit(dp.cnf, dp.literal_counts, literal)
       IN \E more \in Orders(UnitClausesOf(p.cnf)) :
              dp' = [dp EXCEPT
                        !.cnf = p.cnf,
                        !.literal_counts = p.literal_counts,
                        !.unit_clauses = SubSeq(dp.unit_clauses, 1, n - 1)
                                             \o more]
    /\ UNCHANGED <<cdcl_vars, dpll, sat2, luby_call>>

\* lines 158-160: the rest of a pass, once the list of units is empty
DpEndPass ==
    /\ dp.pos = "units"
    /\ dp.unit_clauses = <<>>
    /\ dp' = [dp EXCEPT
                 !.pos = "simplify",
                 !.cnf = perform_subsumption_elimination(
                             perform_pure_literal_elimination(
                                 remove_tautologies(dp.cnf),
                                 dp.literal_counts))]
    /\ UNCHANGED <<cdcl_vars, dpll, sat2, luby_call>>

\* lines 163-166: the inner loop has ended and the CNF decides
DpReturn ==
    /\ dp.pos = "simplify"
    /\ dp.prev_cnf_size = Cardinality(dp.cnf)
    /\ dp.cnf = {} \/ {} \in dp.cnf
    /\ dp' = [dp EXCEPT !.pos = "done", !.returned = Some(dp.cnf = {})]
    /\ UNCHANGED <<cdcl_vars, dpll, sat2, luby_call>>

\* lines 168-185 and 155: resolution on the selected literal, then the
\* next round of the outer loop
DpResolve ==
    /\ dp.pos = "simplify"
    /\ dp.prev_cnf_size = Cardinality(dp.cnf)
    /\ dp.cnf # {} /\ {} \notin dp.cnf
    /\ \E chosen_literal \in select_literal(dp.literal_counts) :
           LET r == Resolve(dp.cnf, dp.literal_counts, chosen_literal)
           IN dp' = [dp EXCEPT !.cnf = r.cnf,
                               !.literal_counts = r.literal_counts,
                               !.prev_cnf_size = -1]
    /\ UNCHANGED <<cdcl_vars, dpll, sat2, luby_call>>

NextDP ==
    \/ DpBeginPass
    \/ DpUnitStep
    \/ DpEndPass
    \/ DpReturn
    \/ DpResolve

SpecDP == InitDP /\ [][NextDP]_vars

\* davis_putnam is one sequential program: until it has returned, the
\* interpreter executes its next statement
FairSpecDP == SpecDP /\ WF_vars(NextDP)

(***************************************************************************)
(* The standard output of __main__, lines 466-476.  A line is its prefix,  *)
(* the words that follow it and the numbers that end it.                   *)
(***************************************************************************)
\* the values a measurement (elapsed time, peak memory) is drawn from
Measurements == 0..1

OutputLine(prefix, words, numbers) ==
    [prefix |-> prefix, words |-> words, numbers |-> numbers]

\* the lines printed after CDCL returned (sat, _) with the counters of slv
main_output(sat, slv, elapsed, peak_memory) ==
    << OutputLine("s", <<IF sat THEN "SATISFIABLE" ELSE "UNSATISFIABLE">>, <<>>),
       OutputLine("c", <<"Time:">>, <<elapsed>>),
       OutputLine("c", <<"Peak", "Memory", "(MB):">>, <<peak_memory>>),
       OutputLine("c", <<"Number", "of", "Unit", "Propagations:">>,
                  <<slv.unit_propagations>>),
       OutputLine("c", <<"Number", "of", "Decisions:">>, <<slv.decisions>>),
       OutputLine("c", <<"Number", "of", "Conflicts:">>, <<slv.conflicts>>),
       OutputLine("c", <<"Number", "of", "Restarts:">>, <<slv.restarts>>),
       OutputLine("c", <<"Number", "of", "Learned", "Clauses:">>,
                  <<slv.learned_clauses>>),
       OutputLine("c", <<"Number", "of", "Deleted", "Clauses:">>,
                  <<slv.deleted_clauses>>),
       OutputLine("c", <<"Number", "of", "Minimalizations:">>,
                  <<slv.minimalizations>>),
       OutputLine("c", <<"Maximum", "Length", "of", "Learned", "Clause:">>,
                  <<slv.max_length_learned_clause>>) >>

\* the outputs of the program in a state where CDCL has returned a verdict
Outputs ==
    {main_output(result.status = "SAT", solver, elapsed, peak_memory) :
        elapsed \in Measurements, peak_memory \in Measurements}

(***************************************************************************)
(* Reference notions the claims are stated with.                           *)
(***************************************************************************)
\* the total assignments of the variables of a CNF
TotalAssignments(f) == [1..get_count(f) -> BOOLEAN]

\* literal l is true under the total assignment a
TrueUnder(l, a) == IF l > 0 THEN a[l] ELSE ~a[-l]

ClauseHolds(c, a) == \E k \in 1..Len(c) : TrueUnder(c[k], a)

Models(f) ==
    {a \in TotalAssignments(f) : \A i \in 1..Len(f) : ClauseHolds(f[i], a)}

\* the brute-force oracle
Satisfiable(f) == Models(f) # {}

\* clause c holds in every model of f
Entails(f, c) == \A a \in Models(f) : ClauseHolds(c, a)

\* unit propagation of the clauses db from the set T of true literals
\* reaches a falsified clause
RECURSIVE UnitRefutes(_, _)
UnitRefutes(db, T) ==
    IF \E i \in 1..Len(db) : \A k \in 1..Len(db[i]) : -db[i][k] \in T
    THEN TRUE
    ELSE LET units ==
                 {l \in UNION {Range(db[i]) : i \in 1..Len(db)} :
                     /\ l \notin T
                     /\ -l \notin T
                     /\ \E i \in 1..Len(db) :
                           /\ l \in Range(db[i])
                           /\ \A m \in Range(db[i]) \ {l} : -m \in T}
         IN IF units = {} THEN FALSE ELSE UnitRefutes(db, T \cup units)

\* c has the RUP property with respect to db
RUP(db, c) ==
    \/ \E l \in Range(c) : -l \in Range(c)
    \/ UnitRefutes(db, {-c[k] : k \in 1..Len(c)})

\* proof is a clausal refutation of f: each clause is RUP with respect to f
\* and the clauses before it, and the last one is empty
ValidRefutation(f, proof) ==
    /\ proof # <<>>
    /\ proof[Len(proof)] = <<>>
    /\ \A k \in 1..Len(proof) : RUP(f \o SubSeq(proof, 1, k - 1), proof[k])

HasEmptyClause(f) == \E i \in 1..Len(f) : f[i] = <<>>

(***************************************************************************)
(* C1.  CDCL returns SAT if and only if the CNF is satisfiable, for every  *)
(* CNF and every combination of the flags.                                 *)
(***************************************************************************)
C1_VerdictAgreesWithOracle ==
    pc = "done" =>
        /\ result.status \in {"SAT", "UNSAT"}
        /\ (result.status = "SAT") <=> Satisfiable(input)

(***************************************************************************)
(* C2.  Whenever CDCL returns SAT, the returned history has exactly one    *)
(* literal per variable, no complementary pair, and every original clause  *)
(* contains a literal of it.                                               *)
(***************************************************************************)
C2_SatAssignmentIsModel ==
    result.status = "SAT" =>
        LET h == result.value IN
        /\ \A v \in 1..num_literals :
              Cardinality({k \in 1..Len(h) : Abs(h[k]) = v}) = 1
        /\ Len(h) = num_literals
        /\ \A k \in 1..Len(h) : -h[k] \notin Range(h)
        /\ \A i \in 1..Len(input) :
              \E j \in 1..Len(input[i]) : input[i][j] \in Range(h)

C4_LearnedClausesAreImplied ==
    /\ \A i \in (original_cnf_size + 1)..Len(cnf) : Entails(input, cnf[i])
    /\ \A i \in (original_cnf_size + 1)..Len(proof_cnf) :
          Entails(input, proof_cnf[i])

\* a clause shortened by minimization is in the store of a satisfiable CNF
C4_Witness ==
    /\ CLAUSE_MINIMIZATION \in options
    /\ Satisfiable(input)
    /\ pc = "propagate"
    /\ Len(cnf) > original_cnf_size
    /\ Len(cnf[Len(cnf)]) < solver.max_length_learned_clause

SameLiterals(c, d) ==
    /\ Len(c) = Len(d)
    /\ \A l \in Range(c) \cup Range(d) :
          Cardinality({k \in 1..Len(c) : c[k] = l}) =
              Cardinality({k \in 1..Len(d) : d[k] = l})

\* the conflicts that have been analysed and whose clause has been logged
LoggedConflicts ==
    solver.conflicts -
        (IF pc \in {"conflict", "backtrack", "learn"} \/ result.status = "UNSAT"
         THEN 1 ELSE 0)

\* a step leaves the log alone or appends to it the clause learn_new_clause
\* adds to the store
AppendOnlyStep ==
    \/ proof_cnf' = proof_cnf
    \/ /\ pc = "learn"
       /\ cnf'[Len(cnf')] # <<>>
       /\ proof_cnf' = Append(proof_cnf, cnf'[Len(cnf')])

\* the same, an entry of the log being free to change the order of its literals
AppendOnlyUpToOrderStep ==
    /\ \A k \in 1..Len(proof_cnf) : SameLiterals(proof_cnf'[k], proof_cnf[k])
    /\ \/ Len(proof_cnf') = Len(proof_cnf)
       \/ /\ pc = "learn"
          /\ cnf'[Len(cnf')] # <<>>
          /\ proof_cnf' = Append(proof_cnf, cnf'[Len(cnf')])

\* the returned proof: the logged clauses after the originals, in the order
\* of the log, then the empty clause
ReturnedProofIsLog ==
    result.status = "UNSAT" =>
        /\ Len(result.value) = Len(proof_cnf) - original_cnf_size + 1
        /\ \A k \in 1..(Len(result.value) - 1) :
              /\ result.value[k] = proof_cnf[original_cnf_size + k]
              /\ result.value[k] # <<>>
        /\ result.value[Len(result.value)] = <<>>

\* one logged clause per analysed conflict, after the entries of the originals
LogInvariant ==
    /\ Len(proof_cnf) - original_cnf_size = LoggedConflicts
    /\ \A k \in 1..original_cnf_size : SameLiterals(proof_cnf[k], input[k])
    /\ ReturnedProofIsLog

NoOriginalClauseInProof ==
    result.status = "UNSAT" =>
        \A k \in 1..Len(result.value) : \A i \in 1..Len(input) :
            ~SameLiterals(result.value[k], input[i])

C7_EmptyClauseIsUnsat ==
    (pc = "done" /\ HasEmptyClause(input)) => result.status = "UNSAT"

(***************************************************************************)
(* C8.  With all flags off the solver adds no learned clause: the clause   *)
(* store keeps exactly the original clauses.                               *)
(***************************************************************************)
C8_NoLearnedClauseWithFlagsOff ==
    options = {} =>
        /\ Len(cnf) = Len(input)
        /\ \A i \in 1..Len(input) : SameLiterals(cnf[i], input[i])

(***************************************************************************)
(* C9.  The search is deterministic: with the same CNF and the same flags  *)
(* every decision is determined by the state of the search (the random     *)
(* heuristic drawing from a source seeded by the configuration).           *)
(***************************************************************************)
C9_DecisionIsDetermined ==
    (pc = "loop" /\ Len(assignments.assignment_history) < num_literals) =>
        Cardinality(DecideChoices(assignments, options)) = 1

(***************************************************************************)
(* C10.  On the unit-only chain the solver reports SAT with the assignment *)
(* 1, 2, 3, 4, -5 and ends with unit_propagations >= 4 and decisions <= 1, *)
(* under every combination of the flags and every choice of the heuristic. *)
(***************************************************************************)
C10_ChainScenario ==
    (input = ChainCNF /\ pc = "done") =>
        /\ result.status = "SAT"
        /\ Range(result.value) = {1, 2, 3, 4, -5}
        /\ solver.unit_propagations >= 4
        /\ solver.decisions <= 1

(***************************************************************************)
(* C11: the pigeonhole instance of generate_php_cnf_file(n) has n*(n+1)    *)
(* variables and (n+1) + n*C(n+1,2) clauses, 20 and 45 for n = 4: one      *)
(* at-least-one-nest clause per pigeon and one at-most-one clause per nest *)
(* and pair of pigeons; CDCL, under every combination of the options,      *)
(* ends on it, with the verdict UNSAT and a proof ending in the empty      *)
(* clause.                                                                 *)
(***************************************************************************)
\* the variable of pigeon i in nest j, both 0-based
PigeonInNest(i, j, n) == i + j * (n + 1) + 1

PhpShape(n) ==
    LET g == generate_php_cnf_file(n)
        sets == {Range(g.lines[k]) : k \in 1..Len(g.lines)}
        atLeast == {{PigeonInNest(i, j, n) : j \in 0..(n - 1)} : i \in 0..n}
        atMost == {{-PigeonInNest(i1, j, n), -PigeonInNest(i2, j, n)} :
                      <<i1, i2, j>> \in
                          {t \in (0..n) \X (0..n) \X (0..(n - 1)) : t[1] < t[2]}}
    IN /\ g.variables = n * (n + 1)
       /\ VarsOf(g.lines) = 1..(n * (n + 1))
       /\ g.clauses = (n + 1) + n * (((n + 1) * n) \div 2)
       /\ Len(g.lines) = g.clauses
       /\ Cardinality(sets) = g.clauses
       /\ sets = atLeast \cup atMost
       /\ \A k \in 1..Len(g.lines) :
              Len(g.lines[k]) = Cardinality(Range(g.lines[k]))

PhpCounts ==
    /\ \A n \in 1..PhpCountMax : PhpShape(n)
    /\ generate_php_cnf_file(4).variables = 20
    /\ generate_php_cnf_file(4).clauses = 45

PhpVerdict ==
    (input \in PhpInputs /\ pc = "done") =>
        /\ result.status = "UNSAT"
        /\ Len(result.value) >= 1
        /\ result.value[Len(result.value)] = <<>>

C11_Pigeonhole ==
    /\ [](PhpCounts /\ PhpVerdict)
    /\ (input \in PhpInputs) ~> (result.status = "UNSAT")

C11_Witness ==
    /\ input = read_cnf(generate_php_cnf_file(PhpMax).lines)
    /\ Len(input) = 9
    /\ CLAUSE_LEARNING \in options
    /\ result.status = "UNSAT"
    /\ Len(result.value) >= 2
    /\ result.value[Len(result.value)] = <<>>
(***************************************************************************)
(* C12: when the program ends with the verdict SAT, its output has the     *)
(* status line "s SATISFIABLE" and a line prefixed "c" or "v" that holds   *)
(* the satisfying assignment as signed integers.                           *)
(***************************************************************************)
HasStatusLine(out, word) ==
    \E k \in 1..Len(out) : out[k] = OutputLine("s", <<word>>, <<>>)

HasAssignmentLine(out, assignment) ==
    \E k \in 1..Len(out) :
        /\ out[k].prefix \in {"c", "v"}
        /\ out[k].words = <<>>
        /\ out[k].numbers = assignment

C12_SatOutputHasAssignment ==
    result.status = "SAT" =>
        \A out \in Outputs :
            /\ HasStatusLine(out, "SATISFIABLE")
            /\ HasAssignmentLine(out, result.value)
(***************************************************************************)
(* C13: DPLL, with pure-literal elimination enabled or disabled, returns   *)
(* (True, A) exactly when the CNF is satisfiable; A then holds no          *)
(* complementary pair of literals and every clause of the CNF holds a      *)
(* literal of A; on an unsatisfiable CNF it returns (False, None).         *)
(***************************************************************************)
VarsOfSets(clauses) ==
    UNION {{Abs(l) : l \in clauses[k]} : k \in 1..Len(clauses)}

\* some assignment of the variables meets every clause
SetSatisfiable(clauses) ==
    \E A \in SUBSET VarsOfSets(clauses) :
        \A k \in 1..Len(clauses) :
            \E l \in clauses[k] : IF l > 0 THEN l \in A ELSE -l \notin A

C13_DpllDecides ==
    dpll.pos = "done" =>
        LET r == dpll.returned[1]
        IN /\ r.sat <=> SetSatisfiable(dpll.cnf)
           /\ r.sat =>
                 /\ r.value # None
                 /\ \A l \in r.value[1] : -l \notin r.value[1]
                 /\ \A k \in 1..Len(dpll.cnf) : dpll.cnf[k] \cap r.value[1] # {}
           /\ ~r.sat => r.value = None

\* DPLL returned True on a CNF on which it decided a literal, found the
\* first branch failing and searched the second
C13_Witness ==
    /\ dpll.pos = "done"
    /\ dpll.returned[1].sat
    /\ LET enable == dpll.enable_pure_literal_elimination
           assigned == SimplifyLoop(dpll.cnf, {}, enable)
       IN /\ is_finished(dpll.cnf, assigned) = 0
          /\ \E d \in get_decision_variable(dpll.cnf, assigned) :
                 /\ \A r \in DPLL(dpll.cnf, assigned \cup {-d}, enable) : ~r.sat
                 /\ d \in dpll.returned[1].value[1]
(***************************************************************************)
(* C14: in every reachable state of the CDCL search each variable occurs   *)
(* at most once on the trail, so never with both polarities, and the       *)
(* is_assigned flag of a variable is true exactly when a literal of the    *)
(* variable is on the trail; every literal a step appends to the trail     *)
(* belongs to a variable that was unassigned before the step.              *)
(***************************************************************************)
TrailVariablesDistinct ==
    LET h == assignments.assignment_history
    IN \A i, j \in 1..Len(h) : i # j => Abs(h[i]) # Abs(h[j])

AssignedIffOnTrail ==
    LET h == assignments.assignment_history
    IN \A v \in 1..assignments.num_literals :
           assignments.assignments[v].is_assigned <=>
               \E i \in 1..Len(h) : Abs(h[i]) = v

\* the literals of the trail after a step that are not on the trail before
\* it, or are on it at another place
AppendedLiterals ==
    LET h == assignments.assignment_history
        g == assignments'.assignment_history
    IN {g[i] : i \in {k \in 1..Len(g) : k > Len(h) \/ h[k] # g[k]}}

SetLiteralOnUnassigned ==
    \A l \in AppendedLiterals : ~get_assignment(assignments, l).is_assigned

C14_TrailIsConsistent ==
    /\ [](TrailVariablesDistinct /\ AssignedIffOnTrail)
    /\ [][SetLiteralOnUnassigned]_vars

\* a trail with decided and propagated literals of both polarities, reached
\* after a backjump
C14_Witness ==
    /\ solver.conflicts >= 1
    /\ Len(assignments.assignment_history) >= 3
    /\ \E i, j \in 1..Len(assignments.assignment_history) :
           /\ assignments.assignment_history[i] > 0
           /\ assignments.assignment_history[j] < 0
           /\ get_assignment(assignments, assignments.assignment_history[i]).parents # <<>>
           /\ get_assignment(assignments, assignments.assignment_history[j]).parents = <<>>
(***************************************************************************)
(* C15: in every reachable state every literal l of the trail either has   *)
(* empty parents or has parents that are all on the trail before l, at a   *)
(* level <= the level of l, and are the negations of the other literals of *)
(* a clause of the store that holds l (the antecedent: l is its only true  *)
(* literal); a trail literal with empty parents is the decision of its     *)
(* level (the first literal of a level >= 1) or was asserted at level 0 by *)
(* a learned clause that holds it alone.                                   *)
(***************************************************************************)
TrailLevel(k) ==
    get_assignment(assignments, assignments.assignment_history[k]).decision_level

TrailParents(k) ==
    get_assignment(assignments, assignments.assignment_history[k]).parents

ParentsPrecede(k) ==
    LET h == assignments.assignment_history
    IN \A p \in Range(TrailParents(k)) :
           \E j \in 1..(k - 1) : h[j] = p /\ TrailLevel(j) <= TrailLevel(k)

HasAntecedent(k) ==
    LET h == assignments.assignment_history
    IN \E c \in 1..Len(cnf) :
           /\ Range(cnf[c]) = {h[k]} \cup {-p : p \in Range(TrailParents(k))}
           /\ \A l \in Range(cnf[c]) \ {h[k]} : Contains(assignments, -l)

IsDecision(k) ==
    /\ TrailLevel(k) >= 1
    /\ \A j \in 1..(k - 1) : TrailLevel(j) < TrailLevel(k)

AssertedByUnitLearnedClause(k) ==
    /\ TrailLevel(k) = 0
    /\ \E c \in (original_cnf_size + 1)..Len(cnf) :
           cnf[c] = <<assignments.assignment_history[k]>>

IsUnassigned(asg, l) == ~get_assignment(asg, l).is_assigned

WatchesHold(clauses, asg, c) ==
    \/ Contains(asg, clauses[c][1])
    \/ Contains(asg, clauses[c][2])
    \/ IsUnassigned(asg, clauses[c][1]) /\ IsUnassigned(asg, clauses[c][2])

WatchedLiteralInvariant(clauses, asg) ==
    \A c \in 1..Len(clauses) : Len(clauses[c]) >= 2 => WatchesHold(clauses, asg, c)

PropagateReturnedNone == Propagate /\ pc' = "restart"

AfterPropagateStep ==
    PropagateReturnedNone => WatchedLiteralInvariant(cnf', assignments')

AfterBackjumpStep ==
    LearnNewClause => WatchedLiteralInvariant(cnf', assignments')

C16_WatchedLiteralInvariant == [][AfterPropagateStep /\ AfterBackjumpStep]_vars
(***************************************************************************)
(* C17: between the operations of the search, and after a deleteClause of  *)
(* any learned clause, the watch lists are consistent with the clause      *)
(* store: the (0-based) index c is in the watch list of the literal l      *)
(* exactly when l is at position 0 or 1 of clause c, every index of a      *)
(* watch list is an index of the store, and no index is twice in one list. *)
(***************************************************************************)
WatchList(asg, l) == retrieve_watched_clauses(get_assignment(asg, l), l)

WatchedAt(clauses, l, c) ==
    \E k \in 1..2 : k <= Len(clauses[c + 1]) /\ clauses[c + 1][k] = l

ListsMatchStore(clauses, asg) ==
    \A v \in 1..asg.num_literals : \A l \in {v, -v} :
        \A c \in 0..(Len(clauses) - 1) :
            (c \in Range(WatchList(asg, l))) <=> WatchedAt(clauses, l, c)

IndicesValid(clauses, asg) ==
    \A v \in 1..asg.num_literals : \A l \in {v, -v} :
        Range(WatchList(asg, l)) \subseteq 0..(Len(clauses) - 1)

NoIndexTwice(asg) ==
    \A v \in 1..asg.num_literals : \A l \in {v, -v} :
        Cardinality(Range(WatchList(asg, l))) = Len(WatchList(asg, l))

WatchListsConsistent(clauses, asg) ==
    /\ ListsMatchStore(clauses, asg)
    /\ IndicesValid(clauses, asg)
    /\ NoIndexTwice(asg)

\* the store as deleteClause takes it
DeletionState ==
    [cnf |-> cnf, assignments |-> assignments, lbd |-> lbd,
     deleted_clauses |-> solver.deleted_clauses, proof_ref |-> proof_ref]

AfterDeleteClause ==
    \A i \in original_cnf_size..(Len(cnf) - 1) :
        LET d == deleteClause(DeletionState, i)
        IN WatchListsConsistent(d.cnf, d.assignments)

\* propagate has returned, or learn_new_clause has
BetweenOperations ==
    \/ pc \in {"conflict", "restart"}
    \/ pc = "propagate" /\ solver.learned_clauses >= 1

C17_WatchListsConsistent ==
    /\ BetweenOperations => WatchListsConsistent(cnf, assignments)
    /\ pc = "restart" => AfterDeleteClause
(***************************************************************************)
(* C18: propagation runs to a fixpoint: whenever propagate returns without *)
(* a conflict, no clause of the store, of any length, is unit under the    *)
(* trail (one position unassigned, every other position false) and none is *)
(* falsified (every position false).                                       *)
(***************************************************************************)
UnassignedPositions(clause, asg) ==
    {k \in 1..Len(clause) : IsUnassigned(asg, clause[k])}

FalsePositions(clause, asg) ==
    {k \in 1..Len(clause) : Contains(asg, -clause[k])}

IsUnitUnder(clause, asg) ==
    /\ Cardinality(UnassignedPositions(clause, asg)) = 1
    /\ Cardinality(FalsePositions(clause, asg)) = Len(clause) - 1

IsFalsifiedUnder(clause, asg) ==
    Cardinality(FalsePositions(clause, asg)) = Len(clause)

AtFixpoint(clauses, asg) ==
    \A c \in 1..Len(clauses) :
        ~IsUnitUnder(clauses[c], asg) /\ ~IsFalsifiedUnder(clauses[c], asg)

C18_PropagationReachesFixpoint ==
    [][PropagateReturnedNone => AtFixpoint(cnf', assignments')]_vars
(***************************************************************************)
(* C19: with clause learning on, at every conflict at a decision level     *)
(* d >= 1 analyzeConflict returns a clause whose literals are all false    *)
(* under the trail of the conflict and of which exactly one, the negation  *)
(* of the first UIP, is assigned at level d, together with a backjump      *)
(* level that is 0 for a unit clause and otherwise the highest level among *)
(* the other literals; the backjump level is less than d.                  *)
(***************************************************************************)
LevelOf(l) == get_assignment(assignments, l).decision_level

\* the implication graph of level d: the parents of l assigned at level d
ParentsAt(l, d) ==
    {p \in Range(get_assignment(assignments, l).parents) : LevelOf(p) = d}

\* the trail literals of level d the conflict clause falsifies
ConflictSources(d) ==
    {-l : l \in {x \in Range(conflict_clause[1]) : LevelOf(x) = d}}

\* the literals of level d from which the frontier is reached along parent
\* edges that avoid the literal u
RECURSIVE BackwardReach(_, _, _, _)
BackwardReach(frontier, seen, d, u) ==
    IF frontier = {} THEN seen
    ELSE LET x == CHOOSE y \in frontier : TRUE
             new == ParentsAt(x, d) \ (seen \cup {x, u})
         IN BackwardReach((frontier \ {x}) \cup new, seen \cup {x}, d, u)

\* the literals of level d without a parent of level d (the decision)
Roots(d) ==
    {l \in Range(assignments.assignment_history) :
        LevelOf(l) = d /\ ParentsAt(l, d) = {}}

\* u lies on every path from a root of level d to the conflict
IsUIP(u, d) ==
    /\ u \in BackwardReach(ConflictSources(d), {}, d, 0)
    /\ Roots(d) \cap BackwardReach(ConflictSources(d) \ {u}, {}, d, u) = {}

\* the UIP nearest to the conflict: the last one on the trail
IsFirstUIP(u, d) ==
    LET h == assignments.assignment_history
    IN /\ IsUIP(u, d)
       /\ \A j, k \in 1..Len(h) : (h[j] = u /\ k > j) => ~IsUIP(h[k], d)

AnalysisResultOk(clause, d, new_level) ==
    /\ clause # <<>>
    /\ \A k \in 1..Len(clause) : Contains(assignments, -clause[k])
    /\ {k \in 1..Len(clause) : LevelOf(clause[k]) = d} = {1}
    /\ IsFirstUIP(-clause[1], d)
    /\ new_level = IF Len(clause) = 1 THEN 0
                   ELSE SetMax({LevelOf(clause[k]) : k \in 2..Len(clause)})
    /\ new_level < d

LearningAnalysisStep ==
    AnalyzeConflict /\ CLAUSE_LEARNING \in options /\ decision_level >= 1

C19_AnalysisReturnsFirstUipClause ==
    [][LearningAnalysisStep =>
           /\ result' = result
           /\ AnalysisResultOk(learned_clause', decision_level, decision_level')]_vars

\* after an analysis with learning on: the clause has literals of lower
\* levels and its first literal negates a UIP that is not the decision
C19_Witness ==
    /\ pc = "backtrack"
    /\ CLAUSE_LEARNING \in options
    /\ Len(learned_clause) >= 2
    /\ decision_level >= 1
    /\ get_assignment(assignments, learned_clause[1]).parents # <<>>
    /\ IsFirstUIP(-learned_clause[1], LevelOf(learned_clause[1]))
(***************************************************************************)
(* C20: the clause learn_new_clause appends after a backjump is asserting: *)
(* its position 0 holds the only literal that is unassigned after the      *)
(* backtracking, every other literal is false under the trail, position 1  *)
(* holds the one of them with the highest trail index, positions 0 and 1   *)
(* are the watched ones, and position 0 is then assigned true at the       *)
(* backjump level with the negations of the other literals as parents.     *)
(***************************************************************************)
\* the place on the trail of the literal that makes l false
TrailIndexOfNegation(asg, l) ==
    SetMax({0} \cup {k \in 1..Len(asg.assignment_history) :
                        asg.assignment_history[k] = -l})

OnlyFirstUnassigned(clause, asg) ==
    /\ IsUnassigned(asg, clause[1])
    /\ \A k \in 2..Len(clause) : Contains(asg, -clause[k])

SecondHasHighestTrailIndex(clause, asg) ==
    \A k \in 3..Len(clause) :
        TrailIndexOfNegation(asg, clause[2]) > TrailIndexOfNegation(asg, clause[k])

FirstTwoWatched(clause, asg, c) ==
    \A k \in 1..2 : k <= Len(clause) => c \in Range(WatchList(asg, clause[k]))

AssertedWithParents(clause, asg, level) ==
    /\ Contains(asg, clause[1])
    /\ asg.assignment_history[Len(asg.assignment_history)] = clause[1]
    /\ get_assignment(asg, clause[1]).decision_level = level
    /\ Range(get_assignment(asg, clause[1]).parents) =
           {-clause[k] : k \in 2..Len(clause)}

LearnedClauseIsAsserting ==
    LET clause == cnf'[Len(cnf')]
    IN /\ Len(cnf') = Len(cnf) + 1
       /\ clause # <<>>
       /\ OnlyFirstUnassigned(clause, assignments)
       /\ SecondHasHighestTrailIndex(clause, assignments)
       /\ FirstTwoWatched(clause, assignments', Len(cnf))
       /\ AssertedWithParents(clause, assignments', decision_level)

C20_LearnedClauseIsAsserting == [][LearnNewClause => LearnedClauseIsAsserting]_vars

(***************************************************************************)
(* C21: with CLAUSE_LEARNING off, analyzeConflict on a conflict at a       *)
(* decision level d >= 1 returns a clause whose first literal negates the  *)
(* decision literal of level d, and the backjump level d - 1.              *)
(***************************************************************************)
\* the decision literal of level d: the first trail literal of that level
DecisionLiteralOf(asg, d) ==
    LET h == asg.assignment_history
    IN h[SetMin({k \in 1..Len(h) :
                    get_assignment(asg, h[k]).decision_level = d})]

NoLearningAnalysisStep ==
    AnalyzeConflict /\ CLAUSE_LEARNING \notin options /\ decision_level >= 1

NegatesDecisionLiteral ==
    /\ result' = result
    /\ learned_clause'[1] = -DecisionLiteralOf(assignments, decision_level)

BackjumpsOneLevel == decision_level' = decision_level - 1

C21_NoLearningBackjumpsOneLevel ==
    [][NoLearningAnalysisStep =>
           (NegatesDecisionLiteral /\ BackjumpsOneLevel)]_vars

(***************************************************************************)
(* C22: CDCL returns UNSAT exactly in the step taken when propagate has    *)
(* returned a conflict and decision_level is 0; that step runs no analysis *)
(* and returns the proof log followed by the empty clause, the log itself  *)
(* unchanged.  After a conflict at a level d >= 1 the search goes on: the  *)
(* conflict is analyzed, the new level is below d, and the backtracking    *)
(* that follows leaves no literal of a higher level on the trail.          *)
(***************************************************************************)
\* the position "conflict" is the one after a propagate that returned a clause
ConflictIsFromPropagate ==
    (pc' = "conflict") <=> (Propagate /\ conflict_clause' # None)

UnsatExactlyAtLevelZero ==
    (result'.status = "UNSAT" /\ result.status # "UNSAT")
        <=> (pc = "conflict" /\ decision_level = 0)

UnsatStepAddsOnlyEmptyClause ==
    (pc = "conflict" /\ decision_level = 0) =>
        /\ UNCHANGED <<cnf, proof_cnf, assignments, lbd, learned_clause,
                       solver, heuristic_b, decision_level>>
        /\ result'.value =
               SubSeq(proof_cnf, original_cnf_size + 1, Len(proof_cnf))
                   \o << <<>> >>
        /\ pc' = "done"

ConflictAboveZeroIsAnalyzed ==
    (pc = "conflict" /\ decision_level >= 1) =>
        /\ AnalyzeConflict
        /\ result' = result
        /\ pc' = "backtrack"
        /\ solver'.learned_clauses = solver.learned_clauses + 1
        /\ decision_level' < decision_level

AnalysisIsFollowedByBackjump ==
    (pc = "backtrack") =>
        /\ Backtrack
        /\ \A k \in 1..Len(assignments'.assignment_history) :
               get_assignment(assignments',
                   assignments'.assignment_history[k]).decision_level
                       <= decision_level
        /\ \A v \in DOMAIN assignments'.assignments :
               assignments'.assignments[v].is_assigned =>
                   assignments'.assignments[v].decision_level <= decision_level

RootConflictStep ==
    /\ ConflictIsFromPropagate
    /\ UnsatExactlyAtLevelZero
    /\ UnsatStepAddsOnlyEmptyClause
    /\ ConflictAboveZeroIsAnalyzed
    /\ AnalysisIsFollowedByBackjump

C22_UnsatOnlyAtRootConflict == [][RootConflictStep]_vars

\* UNSAT returned at level 0 after conflicts of higher levels were analyzed
C22_Witness ==
    /\ result.status = "UNSAT"
    /\ decision_level = 0
    /\ conflict_clause # None
    /\ Len(result.value) >= 3
    /\ solver.learned_clauses >= 2

(***************************************************************************)
(* C23: within one call of propagate the enqueued literals are processed   *)
(* first in, first out: the watch lists are fetched in the order in which  *)
(* the literals were put on the trail, and each fetched list is visited    *)
(* from its first entry on, in list order.                                 *)
(***************************************************************************)
\* the place of the trail literal l on the trail asg
TrailIndex(asg, l) ==
    SetMin({k \in 1..Len(asg.assignment_history) :
               asg.assignment_history[k] = l})

\* the literals are enqueued in the order they are put on the trail (lines
\* 93 and 132-133), so FIFO processing follows the trail
ProcessedInFifoOrder(p) ==
    \A j, k \in 1..Len(p.processed) :
        j < k => TrailIndex(p.assignments, -p.processed[j].literal)
                     < TrailIndex(p.assignments, -p.processed[k].literal)

\* the visits of one watch list follow the list as it was fetched
VisitedInListOrder(p) ==
    \A k \in 1..Len(p.processed) :
        LET e == p.processed[k]
        IN /\ Len(e.visited) <= Len(e.list)
           /\ e.visited = SubSeq(e.list, 1, Len(e.visited))
           /\ (k < Len(p.processed) \/ p.ret = None) => e.visited = e.list

PropagateCall == propagate(cnf, assignments, decision_level, solver)

C23_PropagationIsFifo ==
    [][Propagate =>
          (ProcessedInFifoOrder(PropagateCall)
               /\ VisitedInListOrder(PropagateCall))]_vars

(***************************************************************************)
(* C24: the decision levels of the literals on the trail are               *)
(* non-decreasing from first to last, and none exceeds decision_level.     *)
(* CDCL assigns the new decision_level (line 379) and backtracks to it     *)
(* (line 380) in one pass through the conflict loop; the bound is stated   *)
(* for every position of CDCL but the one between these two lines.         *)
(***************************************************************************)
TrailLevelsNonDecreasing ==
    \A j, k \in 1..Len(assignments.assignment_history) :
        j < k => TrailLevel(j) <= TrailLevel(k)

TrailLevelsBounded ==
    \A k \in 1..Len(assignments.assignment_history) :
        TrailLevel(k) <= decision_level

IsAntecedentOf(clause, l, asg) ==
    /\ l \in Range(clause)
    /\ Range(get_assignment(asg, l).parents) = {-x : x \in Range(clause) \ {l}}

\* the learned clauses of the store (by their entry in the proof log) that
\* are the reason of a literal of the trail asg
ActiveAntecedents(asg) ==
    {k \in DOMAIN proof_ref :
        /\ proof_ref[k] > original_cnf_size
        /\ \E l \in Range(asg.assignment_history) :
               IsAntecedentOf(cnf[proof_ref[k]], l, asg)}

RestartStep ==
    pc = "restart" /\ RESTARTS \in options /\ RestartDue(solver)

AntecedentsSurvive ==
    \A k \in ActiveAntecedents(assignments') : proof_ref'[k] # 0

C25_AntecedentsAreNotDeleted == [][RestartStep => AntecedentsSurvive]_vars

(***************************************************************************)
(* C26: with RESTARTS and CLAUSE_DELETION on, the deletion pass of a       *)
(* restart removes exactly the learned clauses (index >= the number of     *)
(* original clauses) whose LBD is above lbdLimit: the original clauses     *)
(* stay where they are, the learned clauses that are left are the ones     *)
(* with an LBD within the limit, each still paired with its own LBD at     *)
(* its new index, the LBD list is as long as the store, deleted_clauses    *)
(* counts the removed ones, and lbdLimit is multiplied by lbdFactor once.  *)
(***************************************************************************)
\* the learned clauses of a store paired with their LBD values
LearnedPairs(clauses, lbds) ==
    [i \in 1..(Len(clauses) - original_cnf_size) |->
        <<clauses[original_cnf_size + i], lbds[original_cnf_size + i]>>]

\* how often s holds x
CountIn(s, x) == Cardinality({i \in DOMAIN s : s[i] = x})

DeletionStep == RestartStep /\ CLAUSE_DELETION \in options

DeletionPassRemovesByLbd ==
    LET before == LearnedPairs(cnf, lbd)
        kept == SelectSeq(before,
                    LAMBDA p : ~AboveLimit(p[2], solver.lbdLimit))
        after == LearnedPairs(cnf', lbd')
    IN /\ Len(cnf') = Len(lbd')
       /\ Len(lbd) = Len(cnf)
       /\ SubSeq(cnf', 1, original_cnf_size) = SubSeq(cnf, 1, original_cnf_size)
       /\ SubSeq(lbd', 1, original_cnf_size) = SubSeq(lbd, 1, original_cnf_size)
       /\ Len(after) = Len(kept)
       /\ \A p \in Range(before) \cup Range(after) :
              CountIn(after, p) = CountIn(kept, p)
       /\ solver'.deleted_clauses =
              solver.deleted_clauses + Len(before) - Len(kept)
       /\ solver'.lbdLimit.num * solver.lbdLimit.den * 10 =
              solver.lbdLimit.num * solver'.lbdLimit.den * 11

C26_DeletionPassRemovesByLbd ==
    [][DeletionStep => DeletionPassRemovesByLbd]_vars

\* after a restart that deleted a clause and moved a kept learned clause to
\* the index of the deleted one
C26_Witness ==
    /\ solver.restarts >= 1
    /\ solver.deleted_clauses >= 1
    /\ Len(cnf) > original_cnf_size
    /\ \E k \in DOMAIN proof_ref :
           proof_ref[k] # 0 /\ proof_ref[k] < k /\ proof_cnf[k] = cnf[proof_ref[k]]

(***************************************************************************)
(* C27: the life of the clauses in the store.  The original clauses stay   *)
(* at the first indices and keep their literals (positions may be          *)
(* swapped); a learned clause keeps its literals while it is stored; the   *)
(* store holds one clause per analyzed conflict less the deleted ones and  *)
(* grows by one clause in learn_new_clause only; clauses leave the store   *)
(* only in the deletion pass of a restart, which needs RESTARTS and        *)
(* CLAUSE_DELETION, and the ones that leave are learned clauses.           *)
(***************************************************************************)
OriginalsInPlace ==
    /\ Len(cnf) >= original_cnf_size
    /\ \A i \in 1..original_cnf_size : SameLiterals(cnf[i], input[i])

\* learn_new_clause has run once per analyzed conflict (learned_clauses is
\* counted once in analyzeConflict and once in learn_new_clause)
OneClausePerAnalyzedConflict ==
    Len(cnf) = original_cnf_size + (solver.learned_clauses \div 2)
                   - solver.deleted_clauses

\* the learned clauses of clauses
LearnedPart(clauses) ==
    SubSeq(clauses, original_cnf_size + 1, Len(clauses))

StoreStep ==
    IF pc = "learn"
    THEN /\ Len(cnf') = Len(cnf) + 1
         /\ SubSeq(cnf', 1, Len(cnf)) = cnf
    ELSE IF DeletionStep
    THEN /\ Len(cnf') <= Len(cnf)
         /\ \A c \in Range(LearnedPart(cnf')) :
                CountIn(LearnedPart(cnf'), c) <= CountIn(LearnedPart(cnf), c)
    ELSE /\ Len(cnf') = Len(cnf)
         /\ \A i \in 1..Len(cnf) : SameLiterals(cnf'[i], cnf[i])

C27_ClauseStoreLifecycle ==
    /\ [](OriginalsInPlace /\ OneClausePerAnalyzedConflict)
    /\ [][StoreStep]_vars

\* after a restart that deleted a learned clause: original and learned
\* clauses whose positions were swapped are in the store
C27_Witness ==
    /\ solver.deleted_clauses >= 1
    /\ Len(cnf) > original_cnf_size + 1
    /\ \E i \in 1..original_cnf_size : cnf[i] # input[i]

(***************************************************************************)
(* C28: with RESTARTS on, the restart check that follows a propagate that  *)
(* returned no conflict restarts exactly when the conflicts since the last *)
(* restart are more than 100 * L(restarts + 1), L the Luby sequence; the   *)
(* restart backtracks to level 0, adds one to restarts and sets            *)
(* old_conflicts to conflicts.  No other step changes restarts or          *)
(* old_conflicts, and with RESTARTS off restarts stays 0.                  *)
(***************************************************************************)
\* the Luby sequence by its construction: S(1) = <<1>> and S(k + 1) is S(k)
\* twice, followed by 2^k; L(i) is the i-th entry
RECURSIVE LubyPrefix(_)
LubyPrefix(k) ==
    IF k = 1 THEN <<1>>
    ELSE LubyPrefix(k - 1) \o LubyPrefix(k - 1) \o <<2^(k - 1)>>

LubySequence(i) == LubyPrefix(FloorLog2(i) + 1)[i]

ConflictWindow == solver.conflicts - solver.old_conflicts

RestartExpected ==
    /\ RESTARTS \in options
    /\ ConflictWindow > 100 * LubySequence(solver.restarts + 1)

\* the trail, cut after its literals of level 0
LevelZeroPrefix ==
    SelectSeq(assignments.assignment_history, LAMBDA l : LevelOf(l) = 0)

RestartEffect ==
    /\ solver'.restarts = solver.restarts + 1
    /\ solver'.old_conflicts = solver.conflicts
    /\ solver'.conflicts = solver.conflicts
    /\ decision_level' = 0
    /\ assignments'.assignment_history = LevelZeroPrefix
    /\ \A v \in DOMAIN assignments'.assignments :
           assignments'.assignments[v].is_assigned <=>
               (v \in {Abs(l) : l \in Range(LevelZeroPrefix)})

NoRestartEffect ==
    /\ solver'.restarts = solver.restarts
    /\ solver'.old_conflicts = solver.old_conflicts
    /\ pc = "restart" => UNCHANGED <<assignments, decision_level, cnf, lbd, solver>>

RestartPolicyStep ==
    IF pc = "restart" /\ RestartExpected THEN RestartEffect ELSE NoRestartEffect

\* the restart check is made at quiescence
RestartCheckAtQuiescence == (pc = "restart") => (conflict_clause = None)

NoRestartWhenDisabled == (RESTARTS \notin options) => (solver.restarts = 0)

C28_RestartPolicy ==
    /\ [](RestartCheckAtQuiescence /\ NoRestartWhenDisabled)
    /\ [][RestartPolicyStep]_vars

\* after the first restart: the conflict window is empty again and the
\* restart took literals of a higher level off the trail
C28_Witness ==
    /\ pc = "loop"
    /\ solver.restarts = 1
    /\ solver.conflicts > 100
    /\ solver.old_conflicts = solver.conflicts
    /\ decision_level = 0
    /\ \E v \in DOMAIN assignments.assignments :
           /\ ~assignments.assignments[v].is_assigned
           /\ assignments.assignments[v].decision_level >= 1

(***************************************************************************)
(* C29: right after a restart no variable is assigned at a level above 0,  *)
(* the trail is the prefix of level-0 literals it had before,              *)
(* decision_level is 0, and no propagation is pending: no clause of two    *)
(* or more literals has a false literal at a watched position without a    *)
(* true literal at a watched position.                                     *)
(***************************************************************************)
OnlyLevelZeroAssigned(asg) ==
    \A v \in DOMAIN asg.assignments :
        asg.assignments[v].is_assigned => asg.assignments[v].decision_level = 0

NoPendingPropagation(clauses, asg) ==
    \A c \in 1..Len(clauses) :
        Len(clauses[c]) >= 2 =>
            ((Contains(asg, -clauses[c][1]) \/ Contains(asg, -clauses[c][2]))
                => (Contains(asg, clauses[c][1]) \/ Contains(asg, clauses[c][2])))

AfterRestart ==
    /\ OnlyLevelZeroAssigned(assignments')
    /\ assignments'.assignment_history = LevelZeroPrefix
    /\ decision_level' = 0
    /\ NoPendingPropagation(cnf', assignments')

C29_RestartLeavesNothingPending == [][RestartStep => AfterRestart]_vars

(***************************************************************************)
(* C30: when propagation has ended without a conflict and every variable   *)
(* is assigned, the restart check leaves the assignment alone and the      *)
(* driver returns SAT with it; it never unassigns a complete conflict-free *)
(* assignment and goes on to decide again.                                 *)
(***************************************************************************)
AllVariablesAssigned(asg) ==
    \A v \in DOMAIN asg.assignments : asg.assignments[v].is_assigned

CompleteAtQuiescence ==
    /\ pc = "restart"
    /\ conflict_clause = None
    /\ AllVariablesAssigned(assignments)

RestartCheckKeepsIt ==
    /\ assignments'.assignment_history = assignments.assignment_history
    /\ AllVariablesAssigned(assignments')

C30_CompleteAssignmentIsReturned ==
    [][CompleteAtQuiescence => RestartCheckKeepsIt]_vars

(***************************************************************************)
(* C31: in VSIDS mode a decision assigns an unassigned variable of maximal *)
(* activity with the polarity it was last assigned, and a variable that    *)
(* was never assigned before is decided with positive polarity.            *)
(***************************************************************************)
VsidsDecisionStep ==
    /\ pc = "loop"
    /\ VSIDS \in options
    /\ Len(assignments'.assignment_history)
           = Len(assignments.assignment_history) + 1

DecidedLiteral ==
    assignments'.assignment_history[Len(assignments'.assignment_history)]

DecidesMaximalActivity ==
    /\ Abs(DecidedLiteral) \in Unassigned(assignments)
    /\ \A w \in Unassigned(assignments) :
           assignments.assignments[w].vsids_score
               <= assignments.assignments[Abs(DecidedLiteral)].vsids_score

DecidesSavedPolarity ==
    DecidedLiteral = assignments.assignments[Abs(DecidedLiteral)].polarity

\* before the first decision of a run no variable was ever assigned
NothingAssignedYet ==
    /\ solver.decisions = 0
    /\ assignments.assignment_history = <<>>

FirstVisitIsPositive == NothingAssignedYet => DecidedLiteral > 0

C31_VsidsDecision ==
    [][VsidsDecisionStep =>
          (DecidesMaximalActivity /\ DecidesSavedPolarity
              /\ FirstVisitIsPositive)]_vars

(***************************************************************************)
(* C33: with minimization enabled, the pass of minimize_learned_clause     *)
(* removes a literal only if it is not at position 0, its variable has a   *)
(* non-empty antecedent and the negations of all its parents are literals  *)
(* of the clause before the pass; the literals that remain keep their      *)
(* order; a clause that had a non-asserting literal of the backjump level  *)
(* still has one, so that level is still the highest among its             *)
(* non-asserting literals; and the result is not empty.                    *)
(***************************************************************************)
MinimizationStep == pc = "learn" /\ CLAUSE_MINIMIZATION \in options

\* the clause handed to minimize_learned_clause and the clause it leaves
BeforeMinimization == sort_learned_clause(learned_clause, assignments)

AfterMinimization == learned_clause'

NonAssertingLevels(clause) ==
    {get_assignment(assignments, clause[k]).decision_level :
        k \in 2..Len(clause)}

RemovesOnlyImpliedLiterals ==
    \A k \in 1..Len(BeforeMinimization) :
        BeforeMinimization[k] \notin Range(AfterMinimization) =>
            LET parents ==
                    get_assignment(assignments, BeforeMinimization[k]).parents
            IN /\ k # 1
               /\ parents # <<>>
               /\ \A p \in 1..Len(parents) :
                      -parents[p] \in Range(BeforeMinimization)

KeepsOrder ==
    AfterMinimization =
        SelectSeq(BeforeMinimization,
                  LAMBDA x : x \in Range(AfterMinimization))

KeepsBackjumpLevel ==
    decision_level \in NonAssertingLevels(BeforeMinimization) =>
        /\ decision_level \in NonAssertingLevels(AfterMinimization)
        /\ \A l \in NonAssertingLevels(AfterMinimization) :
               l <= decision_level

C33_MinimizationIsOnePassAndSafe ==
    [][MinimizationStep =>
          (/\ RemovesOnlyImpliedLiterals
           /\ KeepsOrder
           /\ KeepsBackjumpLevel
           /\ AfterMinimization # <<>>)]_vars

\* after the first conflict of a run: the learned clause is shorter than the
\* clause the analysis returned and still has a literal of the backjump level
C33_Witness ==
    /\ CLAUSE_MINIMIZATION \in options
    /\ pc = "propagate"
    /\ solver.conflicts = 1
    /\ solver.minimalizations = 1
    /\ Len(learned_clause) < solver.max_length_learned_clause
    /\ Len(learned_clause) >= 2
    /\ decision_level >= 1
    /\ decision_level \in NonAssertingLevels(learned_clause)

(***************************************************************************)
(* C32: in random-heuristic mode every unassigned variable can be chosen   *)
(* at a decision and, for the chosen variable, both polarities are         *)
(* possible decision literals.                                             *)
(***************************************************************************)
RandomDecisionPending ==
    /\ pc = "loop"
    /\ VSIDS \notin options
    /\ Len(assignments.assignment_history) < num_literals

EveryUnassignedVariableCanBeChosen ==
    {Abs(l) : l \in DecideChoices(assignments, options)}
        = Unassigned(assignments)

BothPolaritiesPossible ==
    \A v \in Unassigned(assignments) :
        {v, -v} \subseteq DecideChoices(assignments, options)

C32_RandomDecision ==
    RandomDecisionPending =>
        (EveryUnassignedVariableCanBeChosen /\ BothPolaritiesPossible)

(***************************************************************************)
(* C34: the LBD recorded for a learned clause is the number of distinct    *)
(* decision levels among the literals of the clause as stored, at learn    *)
(* time: the asserting literal counts with the level of the conflict it    *)
(* was derived from, every other literal with its level on the trail.      *)
(***************************************************************************)
\* the level of the conflict, read from the conflict clause: its literals
\* were false at levels up to the level of the conflict
ConflictLevel ==
    SetMax({get_assignment(assignments, conflict_clause[1][k]).decision_level :
               k \in 1..Len(conflict_clause[1])})

StoredClause == cnf'[Len(cnf')]

OthersAreOnTheTrail ==
    \A k \in 2..Len(StoredClause) : Contains(assignments, -StoredClause[k])

LevelsAtLearnTime ==
    {ConflictLevel}
        \cup {get_assignment(assignments, StoredClause[k]).decision_level :
                 k \in 2..Len(StoredClause)}

LbdIsRecorded ==
    /\ Len(lbd') = Len(cnf')
    /\ OthersAreOnTheTrail
    /\ lbd'[Len(lbd')] = Cardinality(LevelsAtLearnTime)

C34_LbdCountsLevelsAtLearnTime == [][LearnNewClause => LbdIsRecorded]_vars

\* a clause of three literals was learned last and its LBD is 3
C34_Witness ==
    /\ pc = "propagate"
    /\ Len(cnf) > original_cnf_size
    /\ cnf[Len(cnf)] = learned_clause
    /\ Len(learned_clause) >= 3
    /\ lbd[Len(lbd)] >= 3

(***************************************************************************)
(* C35: backtrack(level) removes from the trail exactly the literals whose *)
(* decision level is greater than level and clears is_assigned on exactly  *)
(* their variables; the rest of the trail, every variable's activity       *)
(* score, saved polarity and watch lists, and the clause store stay as     *)
(* they are; on an empty trail, or with no literal above the level, it     *)
(* changes nothing, so a second application changes nothing.               *)
(***************************************************************************)
AboveLevel(asg, level) ==
    {l \in Range(asg.assignment_history) :
        get_assignment(asg, l).decision_level > level}

BacktrackEffect(asg, level) ==
    LET b == backtrack(asg, level)
        above == AboveLevel(asg, level)
    IN /\ b.assignment_history =
              SelectSeq(asg.assignment_history, LAMBDA l : l \notin above)
       /\ \E n \in 0..Len(asg.assignment_history) :
              b.assignment_history = SubSeq(asg.assignment_history, 1, n)
       /\ \A v \in DOMAIN asg.assignments :
              /\ b.assignments[v].is_assigned =
                     (asg.assignments[v].is_assigned
                          /\ v \notin {Abs(l) : l \in above})
              /\ b.assignments[v].vsids_score = asg.assignments[v].vsids_score
              /\ b.assignments[v].polarity = asg.assignments[v].polarity
              /\ b.assignments[v].watched_literals
                     = asg.assignments[v].watched_literals
              /\ b.assignments[v].watched_neg_literals
                     = asg.assignments[v].watched_neg_literals
       /\ (asg.assignment_history = <<>> \/ above = {}) => b = asg
       /\ backtrack(b, level) = b

\* the levels backtrack can be called with: 0 at a restart, a level of the
\* trail or the current level at a backjump
BacktrackLevels ==
    {0, decision_level}
        \cup {get_assignment(assignments, l).decision_level :
                 l \in Range(assignments.assignment_history)}

BacktrackAtEveryLevel ==
    \A level \in BacktrackLevels : BacktrackEffect(assignments, level)

BacktrackStepFrame ==
    /\ assignments' = backtrack(assignments, decision_level)
    /\ UNCHANGED <<cnf, lbd, proof_cnf>>

C35_BacktrackFrame ==
    [](BacktrackAtEveryLevel) /\ [][Backtrack => BacktrackStepFrame]_vars

\* right after a backjump to a level above 0: the trail is not empty, and a
\* variable that was unassigned keeps a positive saved polarity and a
\* positive score
C35_Witness ==
    /\ pc = "learn"
    /\ decision_level >= 1
    /\ assignments.assignment_history # <<>>
    /\ \E v \in DOMAIN assignments.assignments :
           /\ ~assignments.assignments[v].is_assigned
           /\ assignments.assignments[v].decision_level > decision_level
           /\ assignments.assignments[v].polarity = v
           /\ assignments.assignments[v].vsids_score > 0

(***************************************************************************)
(* C36: luby(i) returns the i-th term of the Luby sequence for every       *)
(* i >= 1: 2^(k-1) for i = 2^k - 1, otherwise the term at i - 2^(k-1) + 1  *)
(* with k = floor(log2 i) + 1; the terms for i = 1..15 are                 *)
(* 1,1,2,1,1,2,4,1,1,2,1,1,2,4,8; the recursion ends for every i >= 1.     *)
(***************************************************************************)
\* the recurrence of the claim, with the exact floor of the logarithm
RECURSIVE LubyTerm(_)
LubyTerm(i) ==
    LET k == ExactFloorLog2(i) + 1
    IN IF i = AllOnes(k) THEN Pow2Wide(k - 1)
       ELSE LubyTerm(WideSucc(WideSub(i, Pow2Wide(k - 1))))

FirstLubyTerms == <<1, 1, 2, 1, 1, 2, 4, 1, 1, 2, 1, 1, 2, 4, 8>>

LubyCallReturned == luby_call.pos = "done"

C36_LubyIsTheLubySequence ==
    LubyCallReturned =>
        LET r == luby_call.returned[1]
            i == luby_call.i
        IN /\ ~r.raised
           /\ r.value = LubyTerm(i)
           /\ (i.hi = 0 /\ i.lo <= Len(FirstLubyTerms)) =>
                  r.value = FromInt(FirstLubyTerms[i.lo])
           /\ (i.hi = 0 /\ i.lo <= LubySmallMax) =>
                  r.value = FromInt(LubySequence(i.lo))

(***************************************************************************)
(* C37: the statistic learned_clauses equals the number of clauses learned *)
(* so far, which is the number of clauses appended to the proof log, one   *)
(* per analyzed conflict; at termination conflicts = learned_clauses on    *)
(* SAT and conflicts = learned_clauses + 1 on UNSAT.                       *)
(***************************************************************************)
ClausesAppendedToProof == Len(proof_cnf) - original_cnf_size

\* between the analysis of a conflict and the learning of its clause the
\* count of the analysis is ahead by the clause being learned
BetweenAnalysisAndLearning == pc \in {"backtrack", "learn"}

LearnedStatisticCountsProof ==
    ~BetweenAnalysisAndLearning =>
        solver.learned_clauses = ClausesAppendedToProof

ConflictsAtTermination ==
    /\ result.status = "SAT" => solver.conflicts = solver.learned_clauses
    /\ result.status = "UNSAT" => solver.conflicts = solver.learned_clauses + 1

C37_LearnedClauseStatistic ==
    LearnedStatisticCountsProof /\ ConflictsAtTermination

(***************************************************************************)
(* C38: a literal assigned at decision level 0 is permanent: once it is on *)
(* the trail with level 0 it stays on the trail, at the same position and  *)
(* with the same polarity, in every later state until the search ends,     *)
(* across backjumps, restarts and clause deletion.                         *)
(***************************************************************************)
LevelZeroPositions ==
    {k \in 1..Len(assignments.assignment_history) :
        LevelOf(assignments.assignment_history[k]) = 0}

StaysAssignedAtLevelZero(k) ==
    LET l == assignments.assignment_history[k]
    IN /\ Len(assignments'.assignment_history) >= k
       /\ assignments'.assignment_history[k] = l
       /\ Contains(assignments', l)
       /\ get_assignment(assignments', l).decision_level = 0

C38_LevelZeroIsPermanent ==
    [][\A k \in LevelZeroPositions : StaysAssignedAtLevelZero(k)]_vars

\* after the first restart and the deletion of a clause the trail still has
\* literals of level 0, and a literal of a higher level was removed
C38_Witness ==
    /\ pc = "loop"
    /\ solver.restarts >= 1
    /\ solver.deleted_clauses >= 1
    /\ LevelZeroPositions # {}
    /\ \E v \in DOMAIN assignments.assignments :
           /\ ~assignments.assignments[v].is_assigned
           /\ assignments.assignments[v].decision_level > 0

(***************************************************************************)
(* C40: solve_2sat returns is_satisfiable = True exactly when the CNF is   *)
(* satisfiable, and when it returns True the returned assignment list      *)
(* assigns no variable twice and every clause of the input CNF contains a  *)
(* literal of the list, the decisions and propagations of nested calls     *)
(* included.                                                               *)
(***************************************************************************)
Sat2Satisfiable(f) ==
    \E A \in SUBSET (1..Sat2NumVars) :
        \A i \in 1..Len(f) :
            \E k \in 1..Len(f[i]) :
                IF f[i][k] > 0 THEN f[i][k] \in A ELSE -f[i][k] \notin A

Solve2SatReturned == sat2.pos = "done"

VerdictIsCorrect2Sat ==
    sat2.returned[1].sat <=> Sat2Satisfiable(sat2.cnf)

NoVariableTwice(value) ==
    \A j, k \in 1..Len(value) : j # k => Abs(value[j]) # Abs(value[k])

EveryClauseHasAReturnedLiteral(f, value) ==
    \A i \in 1..Len(f) : Range(f[i]) \cap Range(value) # {}

C40_Solve2SatReturnsAModel ==
    Solve2SatReturned =>
        /\ VerdictIsCorrect2Sat
        /\ sat2.returned[1].sat =>
               /\ NoVariableTwice(sat2.returned[1].value)
               /\ EveryClauseHasAReturnedLiteral(sat2.cnf,
                                                 sat2.returned[1].value)

(***************************************************************************)
(* C39: davis_putnam terminates on every finite CNF without empty input    *)
(* clauses and returns True exactly when the CNF is satisfiable, although  *)
(* literal_counts is only kept approximately (stale keys and counts).      *)
(***************************************************************************)
DpSatisfiable(clauses) ==
    \E A \in SUBSET (1..DpNumVars) :
        \A c \in clauses : \E l \in c : IF l > 0 THEN l \in A ELSE -l \notin A

DpReturnsSatisfiability ==
    dp.pos = "done" => (dp.returned[1] <=> DpSatisfiable(dp.input))

\* every simplification and every resolution keeps the satisfiability
DpKeepsSatisfiability ==
    dp.pos # "none" => (DpSatisfiable(dp.cnf) <=> DpSatisfiable(dp.input))

DpTerminates == <>(dp.pos = "done")

DpVerdictIsSound == DpReturnsSatisfiability /\ DpKeepsSatisfiability

C39_DavisPutnamDecides == [](DpVerdictIsSound) /\ DpTerminates

\* literal_counts is stale: it has a key with a positive count for a
\* literal that is in no clause, or no key for a literal of a clause
StaleCounts ==
    \/ \E l \in DOMAIN dp.literal_counts :
           dp.literal_counts[l] # Cardinality({c \in dp.cnf : l \in c})
    \/ (UNION dp.cnf) \ DOMAIN dp.literal_counts # {}

\* davis_putnam has returned False for an unsatisfiable CNF without unit
\* clauses, so after a resolution step, and its table is stale: propagating
\* a unit clause that is no longer in the CNF has made a count negative
C39_Witness ==
    /\ dp.pos = "done"
    /\ dp.returned = Some(FALSE)
    /\ ~DpSatisfiable(dp.input)
    /\ UnitClausesOf(dp.input) = {}
    /\ StaleCounts
    /\ \E l \in DOMAIN dp.literal_counts : dp.literal_counts[l] < 0

====
